---- MODULE Spec2Model ----
(***************************************************************************)
(* A model of the guessemon question engine (PokemonGameEngine in          *)
(* src/src/utils.ts) together with the part of the data loader it calls    *)
(* (loadSimplePokemon, getPokemonById, clearPokemonCache of dataLoader.ts).*)
(*                                                                         *)
(* JavaScript runs one callback at a time, so every action below is one    *)
(* synchronous stretch of code: from a call (or the resumption of an       *)
(* await) to the next await or to the return.  Arrays and the game state   *)
(* object are heap objects: a snapshot returned by getGameState shares     *)
(* its arrays with the engine, as the shallow copy of the source does.     *)
(***************************************************************************)
EXTENDS Integers, Sequences, FiniteSets, TLC

(***************************************************************************)
(* Strings.  A string is modelled as the sequence <<first character,      *)
(* rest>>, so that charAt(0).toUpperCase() + slice(1) is computed and not  *)
(* assumed; the empty string is <<>>.                                      *)
(***************************************************************************)
Str(first, rest) == <<first, rest>>

EmptyString == <<>>

ToUpperCase(c) ==
    CASE c = "f" -> "F"
      [] c = "w" -> "W"
      [] c = "g" -> "G"
      [] c = "e" -> "E"
      [] c = "i" -> "I"
      [] c = "r" -> "R"
      [] OTHER -> c

Capitalize(s) == IF s = EmptyString THEN EmptyString ELSE <<ToUpperCase(s[1])>> \o Tail(s)

Fire == Str("f", "ire")
Water == Str("w", "ater")
Grass == Str("g", "rass")
Electric == Str("e", "lectric")
Ice == Str("i", "ce")
Rock == Str("r", "ock")
Red == Str("r", "ed")
Blue == Str("b", "lue")
Green == Str("g", "reen")
UnknownColor == Str("u", "nknown")

(***************************************************************************)
(* Questions.  text is the rendered question text: the fixed wording       *)
(* (kind), the number printed in it as whole part and tenths (the source   *)
(* prints value / 10), and the word printed in it.  A missing value,       *)
(* stringValue or question is a value of the same shape.                   *)
(***************************************************************************)
NoValue == -1

Text(kind, whole, frac, word) == [kind |-> kind, whole |-> whole, frac |-> frac, word |-> word]

NoText == Text("", 0, 0, EmptyString)

NoQuestion ==
    [type |-> "none", text |-> NoText, value |-> NoValue,
     stringValue |-> EmptyString, booleanValue |-> FALSE]

Question(type, text, value, stringValue, booleanValue) ==
    [type |-> type, text |-> text, value |-> value,
     stringValue |-> stringValue, booleanValue |-> booleanValue]

\* value / 10 printed by Number.prototype.toString: "6.9", "6", "460"
TenthsText(kind, v) == Text(kind, v \div 10, v % 10, EmptyString)

\* `${question.type}:${question.text}`
QuestionKey(q) == [type |-> q.type, text |-> q.text]

(***************************************************************************)
(* Helpers on sequences, written as the array methods of the source.       *)
(***************************************************************************)
\* `const x = value; body`: the value is computed once and handed to Body
With(value, Body(_)) == CHOOSE result \in { Body(x) : x \in {value} } : TRUE

Abs(x) == IF x < 0 THEN -x ELSE x

Count(seq, Test(_)) == Len(SelectSeq(seq, Test))

Includes(seq, x) == \E i \in 1..Len(seq) : seq[i] = x

RECURSIVE InsertSorted(_, _)
InsertSorted(sorted, x) ==
    IF sorted = <<>> THEN <<x>>
    ELSE IF x < Head(sorted) THEN <<x>> \o sorted
    ELSE <<Head(sorted)>> \o InsertSorted(Tail(sorted), x)

RECURSIVE SortNumbers(_)
SortNumbers(nums) ==
    IF nums = <<>> THEN <<>>
    ELSE With(SortNumbers(SubSeq(nums, 1, Len(nums) - 1)),
              LAMBDA sorted : InsertSorted(sorted, nums[Len(nums)]))

RECURSIVE Flatten(_)
Flatten(seqs) == IF seqs = <<>> THEN <<>> ELSE Head(seqs) \o Flatten(Tail(seqs))

\* the keys of a Record<string, number> in insertion order
RECURSIVE InsertionOrderKeys(_)
InsertionOrderKeys(seq) ==
    IF seq = <<>> THEN <<>>
    ELSE With(InsertionOrderKeys(SubSeq(seq, 1, Len(seq) - 1)),
              LAMBDA before : IF Includes(before, seq[Len(seq)])
                              THEN before
                              ELSE Append(before, seq[Len(seq)]))

Occurrences(seq, x) == Count(seq, LAMBDA y : y = x)

(***************************************************************************)
(* The loop shared by the frequency strategies:                            *)
(*   Object.entries(count).forEach(([k, c]) => {                           *)
(*     const splitDiff = Math.abs(c - target);                             *)
(*     if (splitDiff < bestSplit) { bestSplit = splitDiff; best = k; } })  *)
(* with target = length / 2; differences are compared doubled.  The result *)
(* is [found, best]; found is FALSE while bestSplit is still Infinity.     *)
(***************************************************************************)
RECURSIVE ClosestToHalf(_, _, _)
ClosestToHalf(keys, values, length) ==
    IF keys = <<>> THEN [found |-> FALSE, best |-> EmptyString, split |-> 0]
    ELSE With(<<ClosestToHalf(SubSeq(keys, 1, Len(keys) - 1), values, length),
                Abs(2 * Occurrences(values, keys[Len(keys)]) - length)>>,
              LAMBDA at : \* at = <<the result so far, splitDiff>>
                  IF ~at[1].found \/ at[2] < at[1].split
                  THEN [found |-> TRUE, best |-> keys[Len(keys)], split |-> at[2]]
                  ELSE at[1])

(***************************************************************************)
(* The question strategies, in the order of getQuestionStrategies().       *)
(***************************************************************************)
StrategyTypes ==
    <<"weight", "height", "type", "generation", "legendary", "mythical",
      "baby", "evolution", "weakness", "strength", "color">>

Weights(pokemon) == [i \in 1..Len(pokemon) |-> pokemon[i].weight]

Heights(pokemon) == [i \in 1..Len(pokemon) |-> pokemon[i].height]

\* the frequency strategies: the key whose count is closest to half of `length`
BestKey(values, length) ==
    With(values, LAMBDA all : ClosestToHalf(InsertionOrderKeys(all), all, length).best)

\* a threshold taken one place lower in the sorted values of a larger set
NumericThresholdLower(values) ==
    LET n == Len(values)
        yesCount(t) == Count(values, LAMBDA v : v > t)
        noCount(t) == Count(values, LAMBDA v : v <= t)
        none == [found |-> FALSE, value |-> NoValue]
    IN  IF n < 2 THEN none
        ELSE With(SortNumbers(values), LAMBDA sorted :
             IF n <= 3
             THEN IF yesCount(sorted[1]) > 0 /\ noCount(sorted[1]) > 0
                  THEN [found |-> TRUE, value |-> sorted[1]]
                  ELSE IF n >= 3 /\ yesCount(sorted[2]) > 0 /\ noCount(sorted[2]) > 0
                       THEN [found |-> TRUE, value |-> sorted[2]]
                       ELSE none
             ELSE [found |-> TRUE, value |-> sorted[n \div 2]])

\* a threshold that is the median for the small sets as well
NumericThresholdMedianOnly(values) ==
    LET n == Len(values)
    IN  IF n < 2 THEN [found |-> FALSE, value |-> NoValue]
        ELSE With(SortNumbers(values), LAMBDA sorted :
                 [found |-> TRUE, value |-> sorted[(n \div 2) + 1]])

\* weight and height: [found, value]; found is FALSE where the strategy returns null
NumericThreshold(values) ==
    LET n == Len(values)
        yesCount(t) == Count(values, LAMBDA v : v > t)
        noCount(t) == Count(values, LAMBDA v : v <= t)
        none == [found |-> FALSE, value |-> NoValue]
    IN  IF n < 2 THEN none
        ELSE With(SortNumbers(values), LAMBDA sorted :
             IF n <= 3
             THEN IF yesCount(sorted[1]) > 0 /\ noCount(sorted[1]) > 0
                  THEN [found |-> TRUE, value |-> sorted[1]]
                  ELSE IF n >= 3 /\ yesCount(sorted[2]) > 0 /\ noCount(sorted[2]) > 0
                       THEN [found |-> TRUE, value |-> sorted[2]]
                       ELSE none
             ELSE [found |-> TRUE, value |-> sorted[(n \div 2) + 1]])

WeightGenerateQuestion(pokemon) ==
    With(NumericThreshold(Weights(pokemon)), LAMBDA t :
        IF ~t.found THEN NoQuestion
        ELSE Question("weight", TenthsText("Is your Pokemon heavier than kg?", t.value),
                      t.value, EmptyString, FALSE))

\* a weight filter that keeps the wrong side
WeightFilterSwapped(pokemon, question, response) ==
    IF question.value = NoValue THEN pokemon
    ELSE IF response = "yes"
         THEN SelectSeq(pokemon, LAMBDA p : p.weight <= question.value)
         ELSE SelectSeq(pokemon, LAMBDA p : p.weight > question.value)

WeightFilterPokemon(pokemon, question, response) ==
    IF question.value = NoValue THEN pokemon
    ELSE IF response = "yes"
         THEN SelectSeq(pokemon, LAMBDA p : p.weight > question.value)
         ELSE SelectSeq(pokemon, LAMBDA p : p.weight <= question.value)

HeightGenerateQuestion(pokemon) ==
    With(NumericThreshold(Heights(pokemon)), LAMBDA t :
        IF ~t.found THEN NoQuestion
        ELSE Question("height", TenthsText("Is your Pokemon taller than meters?", t.value),
                      t.value, EmptyString, FALSE))

\* a height filter whose no-side loses the entities at the threshold
HeightFilterBelow(pokemon, question, response) ==
    IF question.value = NoValue THEN pokemon
    ELSE IF response = "yes"
         THEN SelectSeq(pokemon, LAMBDA p : p.height > question.value)
         ELSE SelectSeq(pokemon, LAMBDA p : p.height < question.value)

HeightFilterPokemon(pokemon, question, response) ==
    IF question.value = NoValue THEN pokemon
    ELSE IF response = "yes"
         THEN SelectSeq(pokemon, LAMBDA p : p.height > question.value)
         ELSE SelectSeq(pokemon, LAMBDA p : p.height <= question.value)

TypeGenerateQuestion(pokemon) ==
    With(BestKey(Flatten([i \in 1..Len(pokemon) |-> pokemon[i].types]), Len(pokemon)),
         LAMBDA bestType :
        IF bestType = EmptyString THEN NoQuestion
        ELSE Question("type", Text("Is your Pokemon a type?", 0, 0, Capitalize(bestType)),
                      NoValue, bestType, FALSE))

TypeFilterPokemon(pokemon, question, response) ==
    IF question.stringValue = EmptyString THEN pokemon
    ELSE IF response = "yes"
         THEN SelectSeq(pokemon, LAMBDA p : Includes(p.types, question.stringValue))
         ELSE SelectSeq(pokemon, LAMBDA p : ~Includes(p.types, question.stringValue))

\* genNames[bestGen] || `Generation ${bestGen.toString()}`
GenNames ==
    <<"Kanto", "Johto", "Hoenn", "Sinnoh", "Unova", "Kalos", "Alola", "Galar", "Paldea">>

GenerationText(gen) ==
    IF gen \in 1..Len(GenNames)
    THEN Text("Is your Pokemon from ?", 0, 0, Str(GenNames[gen], ""))
    ELSE Text("Is your Pokemon from ?", gen, 0, Str("Generation ", ""))

\* Object.entries of a record with integer keys lists them in ascending order
GenerationGenerateQuestion(pokemon) ==
    LET gens == [i \in 1..Len(pokemon) |-> pokemon[i].generation]
    IN  With(SortNumbers(InsertionOrderKeys(gens)), LAMBDA keys :
        With(ClosestToHalf(keys, gens, Len(pokemon)), LAMBDA choice :
        With(IF choice.found THEN choice.best ELSE 1, LAMBDA bestGen :
            Question("generation", GenerationText(bestGen), bestGen, EmptyString, FALSE))))

GenerationFilterPokemon(pokemon, question, response) ==
    IF question.value = NoValue THEN pokemon
    ELSE IF response = "yes"
         THEN SelectSeq(pokemon, LAMBDA p : p.generation = question.value)
         ELSE SelectSeq(pokemon, LAMBDA p : p.generation # question.value)

LegendaryGenerateQuestion(pokemon) ==
    LET legendaryCount == Count(pokemon, LAMBDA p : p.isLegendary)
        nonLegendaryCount == Len(pokemon) - legendaryCount
    IN  IF legendaryCount = 0 \/ nonLegendaryCount = 0 THEN NoQuestion
        ELSE Question("legendary", Text("Is your Pokemon a legendary Pokemon?", 0, 0, EmptyString),
                      NoValue, EmptyString, TRUE)

LegendaryFilterPokemon(pokemon, question, response) ==
    IF response = "yes"
    THEN SelectSeq(pokemon, LAMBDA p : p.isLegendary)
    ELSE SelectSeq(pokemon, LAMBDA p : ~p.isLegendary)

\* a mythical strategy that asks whenever there are candidates
MythicalGenerateQuestionAlways(pokemon) ==
    IF Len(pokemon) = 0 THEN NoQuestion
    ELSE Question("mythical", Text("Is your Pokemon a mythical Pokemon?", 0, 0, EmptyString),
                  NoValue, EmptyString, TRUE)

MythicalGenerateQuestion(pokemon) ==
    LET mythicalCount == Count(pokemon, LAMBDA p : p.isMythical)
        nonMythicalCount == Len(pokemon) - mythicalCount
    IN  IF mythicalCount = 0 \/ nonMythicalCount = 0 THEN NoQuestion
        ELSE Question("mythical", Text("Is your Pokemon a mythical Pokemon?", 0, 0, EmptyString),
                      NoValue, EmptyString, TRUE)

MythicalFilterPokemon(pokemon, question, response) ==
    IF response = "yes"
    THEN SelectSeq(pokemon, LAMBDA p : p.isMythical)
    ELSE SelectSeq(pokemon, LAMBDA p : ~p.isMythical)

BabyGenerateQuestion(pokemon) ==
    LET babyCount == Count(pokemon, LAMBDA p : p.isBaby)
        nonBabyCount == Len(pokemon) - babyCount
    IN  IF babyCount = 0 \/ nonBabyCount = 0 THEN NoQuestion
        ELSE Question("baby", Text("Is your Pokemon a baby Pokemon?", 0, 0, EmptyString),
                      NoValue, EmptyString, TRUE)

BabyFilterPokemon(pokemon, question, response) ==
    IF response = "yes"
    THEN SelectSeq(pokemon, LAMBDA p : p.isBaby)
    ELSE SelectSeq(pokemon, LAMBDA p : ~p.isBaby)

IsEvolved == Str("i", "sEvolved")
HasEvolution == Str("h", "asEvolution")

\* an evolution strategy that asks for isEvolved on a tie as well
EvolutionGenerateQuestionOnTie(pokemon) ==
    LET evolvedCount == Count(pokemon, LAMBDA p : p.isEvolved)
        notEvolvedCount == Len(pokemon) - evolvedCount
    IN  IF Abs(evolvedCount - notEvolvedCount)
             <= Abs(Count(pokemon, LAMBDA p : p.hasEvolution)
                    - Count(pokemon, LAMBDA p : ~p.hasEvolution))
        THEN Question("evolution",
                      Text("Has your Pokemon evolved from another Pokemon?", 0, 0, EmptyString),
                      NoValue, IsEvolved, FALSE)
        ELSE Question("evolution",
                      Text("Can your Pokemon evolve into another Pokemon?", 0, 0, EmptyString),
                      NoValue, HasEvolution, FALSE)

EvolutionGenerateQuestion(pokemon) ==
    LET evolvedCount == Count(pokemon, LAMBDA p : p.isEvolved)
        notEvolvedCount == Len(pokemon) - evolvedCount
    IN  IF Abs(evolvedCount - notEvolvedCount)
             < Abs(Count(pokemon, LAMBDA p : p.hasEvolution)
                   - Count(pokemon, LAMBDA p : ~p.hasEvolution))
        THEN Question("evolution",
                      Text("Has your Pokemon evolved from another Pokemon?", 0, 0, EmptyString),
                      NoValue, IsEvolved, FALSE)
        ELSE Question("evolution",
                      Text("Can your Pokemon evolve into another Pokemon?", 0, 0, EmptyString),
                      NoValue, HasEvolution, FALSE)

EvolutionFilterPokemon(pokemon, question, response) ==
    IF question.stringValue = EmptyString THEN pokemon
    ELSE IF question.stringValue = IsEvolved
         THEN IF response = "yes"
              THEN SelectSeq(pokemon, LAMBDA p : p.isEvolved)
              ELSE SelectSeq(pokemon, LAMBDA p : ~p.isEvolved)
         ELSE IF question.stringValue = HasEvolution
              THEN IF response = "yes"
                   THEN SelectSeq(pokemon, LAMBDA p : p.hasEvolution)
                   ELSE SelectSeq(pokemon, LAMBDA p : ~p.hasEvolution)
              ELSE pokemon

WeaknessGenerateQuestion(pokemon) ==
    With(BestKey(Flatten([i \in 1..Len(pokemon) |-> pokemon[i].weaknesses]), Len(pokemon)),
         LAMBDA bestWeakness :
        IF bestWeakness = EmptyString THEN NoQuestion
        ELSE Question("weakness",
                      Text("Is your Pokemon weak to attacks?", 0, 0, Capitalize(bestWeakness)),
                      NoValue, bestWeakness, FALSE))

WeaknessFilterPokemon(pokemon, question, response) ==
    IF question.stringValue = EmptyString THEN pokemon
    ELSE IF response = "yes"
         THEN SelectSeq(pokemon, LAMBDA p : Includes(p.weaknesses, question.stringValue))
         ELSE SelectSeq(pokemon, LAMBDA p : ~Includes(p.weaknesses, question.stringValue))

StrengthGenerateQuestion(pokemon) ==
    With(BestKey(Flatten([i \in 1..Len(pokemon) |-> pokemon[i].strengths]), Len(pokemon)),
         LAMBDA bestStrength :
        IF bestStrength = EmptyString THEN NoQuestion
        ELSE Question("strength",
                      Text("Is your Pokemon strong against types?", 0, 0, Capitalize(bestStrength)),
                      NoValue, bestStrength, FALSE))

StrengthFilterPokemon(pokemon, question, response) ==
    IF question.stringValue = EmptyString THEN pokemon
    ELSE IF response = "yes"
         THEN SelectSeq(pokemon, LAMBDA p : Includes(p.strengths, question.stringValue))
         ELSE SelectSeq(pokemon, LAMBDA p : ~Includes(p.strengths, question.stringValue))

ColorGenerateQuestion(pokemon) ==
    With(BestKey(SelectSeq([i \in 1..Len(pokemon) |-> pokemon[i].color],
                           LAMBDA c : c # UnknownColor), Len(pokemon)),
         LAMBDA bestColor :
        IF bestColor = EmptyString THEN NoQuestion
        ELSE Question("color", Text("Is your Pokemon primarily ?", 0, 0, bestColor),
                      NoValue, bestColor, FALSE))

\* a color filter that drops the entities of unknown color from both sides
ColorFilterKnownOnly(pokemon, question, response) ==
    IF question.stringValue = EmptyString THEN pokemon
    ELSE IF response = "yes"
         THEN SelectSeq(pokemon, LAMBDA p : p.color = question.stringValue)
         ELSE SelectSeq(pokemon, LAMBDA p : p.color # question.stringValue
                                            /\ p.color # UnknownColor)

ColorFilterPokemon(pokemon, question, response) ==
    IF question.stringValue = EmptyString THEN pokemon
    ELSE IF response = "yes"
         THEN SelectSeq(pokemon, LAMBDA p : p.color = question.stringValue)
         ELSE SelectSeq(pokemon, LAMBDA p : p.color # question.stringValue)

\* strategy.generateQuestion(pokemon) of the strategy of the given type
GenerateQuestion(type, pokemon) ==
    CASE type = "weight" -> WeightGenerateQuestion(pokemon)
      [] type = "height" -> HeightGenerateQuestion(pokemon)
      [] type = "type" -> TypeGenerateQuestion(pokemon)
      [] type = "generation" -> GenerationGenerateQuestion(pokemon)
      [] type = "legendary" -> LegendaryGenerateQuestion(pokemon)
      [] type = "mythical" -> MythicalGenerateQuestion(pokemon)
      [] type = "baby" -> BabyGenerateQuestion(pokemon)
      [] type = "evolution" -> EvolutionGenerateQuestion(pokemon)
      [] type = "weakness" -> WeaknessGenerateQuestion(pokemon)
      [] type = "strength" -> StrengthGenerateQuestion(pokemon)
      [] type = "color" -> ColorGenerateQuestion(pokemon)

\* strategy.filterPokemon(pokemon, question, response) of the strategy of the given type
FilterPokemon(type, pokemon, question, response) ==
    CASE type = "weight" -> WeightFilterPokemon(pokemon, question, response)
      [] type = "height" -> HeightFilterPokemon(pokemon, question, response)
      [] type = "type" -> TypeFilterPokemon(pokemon, question, response)
      [] type = "generation" -> GenerationFilterPokemon(pokemon, question, response)
      [] type = "legendary" -> LegendaryFilterPokemon(pokemon, question, response)
      [] type = "mythical" -> MythicalFilterPokemon(pokemon, question, response)
      [] type = "baby" -> BabyFilterPokemon(pokemon, question, response)
      [] type = "evolution" -> EvolutionFilterPokemon(pokemon, question, response)
      [] type = "weakness" -> WeaknessFilterPokemon(pokemon, question, response)
      [] type = "strength" -> StrengthFilterPokemon(pokemon, question, response)
      [] type = "color" -> ColorFilterPokemon(pokemon, question, response)

(***************************************************************************)
(* generateNextQuestion: the scan over the strategies and its retries.     *)
(***************************************************************************)
MaxQuestions == 20

MaxAttempts == 10

\* a scan that does not look at the questions asked before
NeverRepeated(question, asked) == FALSE

\* the question was asked before in this game
Repeated(question, asked) == QuestionKey(question) \in asked

\* a scan that takes a question whatever its two sides are
AnySplit(yesCount, noCount) == FALSE

\* the question leaves one side of the population empty
NoSplit(yesCount, noCount) == yesCount = 0 \/ noCount = 0

\* a loop body that replaces the best question on an equal split as well
ConsiderTakingLater(type, pokemon, asked, sofar) ==
    With(GenerateQuestion(type, pokemon), LAMBDA question :
        IF question = NoQuestion THEN sofar
        ELSE IF Repeated(question, asked) THEN sofar
        ELSE With(<<Len(FilterPokemon(type, pokemon, question, "yes")),
                    Len(FilterPokemon(type, pokemon, question, "no"))>>,
                  LAMBDA filtered :
                      IF NoSplit(filtered[1], filtered[2]) THEN sofar
                      ELSE IF sofar.question = NoQuestion
                              \/ Abs(filtered[1] - filtered[2]) <= sofar.split
                           THEN [question |-> question,
                                 split |-> Abs(filtered[1] - filtered[2])]
                           ELSE sofar))

\* the body of the loop `for (const strategy of strategiesToUse)` for the
\* strategy `type`: [question, split] is bestQuestion and bestSplit; bestSplit is
\* Infinity while question is NoQuestion
Consider(type, pokemon, asked, sofar) ==
    With(GenerateQuestion(type, pokemon), LAMBDA question :
        IF question = NoQuestion THEN sofar
        ELSE IF Repeated(question, asked) THEN sofar
        ELSE With(<<Len(FilterPokemon(type, pokemon, question, "yes")),
                    Len(FilterPokemon(type, pokemon, question, "no"))>>,
                  LAMBDA filtered : \* the lengths of yesFiltered and noFiltered
                      IF NoSplit(filtered[1], filtered[2]) THEN sofar
                      ELSE IF sofar.question = NoQuestion
                              \/ Abs(filtered[1] - filtered[2]) < sofar.split
                           THEN [question |-> question,
                                 split |-> Abs(filtered[1] - filtered[2])]
                           ELSE sofar))

\* the loop `for (const strategy of strategiesToUse)`
RECURSIVE ScanStrategies(_, _, _)
ScanStrategies(strategiesToUse, pokemon, asked) ==
    IF strategiesToUse = <<>> THEN [question |-> NoQuestion, split |-> 0]
    ELSE With(ScanStrategies(SubSeq(strategiesToUse, 1, Len(strategiesToUse) - 1),
                             pokemon, asked),
              LAMBDA sofar : Consider(strategiesToUse[Len(strategiesToUse)], pokemon,
                                      asked, sofar))

\* a scan that goes through every strategy whatever was used
StrategiesToUseAll(used) == StrategyTypes

\* the strategies of one attempt: those of a type not used yet, or all of them
StrategiesToUse(used) ==
    With(SelectSeq(StrategyTypes, LAMBDA t : t \notin used), LAMBDA availableStrategies :
        IF Len(availableStrategies) > 0 THEN availableStrategies ELSE StrategyTypes)

\* a loop that gives up after its first scan
AttemptsOnce(attempt, used, first, rescan) ==
    [question |-> first, used |-> used, scans |-> 1]

\* the loop `for (let attempt = 0; attempt < maxAttempts; attempt++)`:
\* [question, used, scans] is bestQuestion, usedQuestionTypes after the loop and
\* the number of scans made.  rescan is the scan of every attempt after the
\* first: usedQuestionTypes was cleared and nothing else the scan reads changes
RECURSIVE Attempts(_, _, _, _)
Attempts(attempt, used, first, rescan) ==
    IF attempt >= MaxAttempts
    THEN [question |-> NoQuestion, used |-> used, scans |-> attempt]
    ELSE IF (IF attempt = 0 THEN first ELSE rescan) # NoQuestion
         THEN [question |-> IF attempt = 0 THEN first ELSE rescan,
               used |-> used, scans |-> attempt + 1]
         ELSE Attempts(attempt + 1, IF attempt = 0 THEN {} ELSE used, first, rescan)

\* the loop of attempts on the population `pokemon`; the scan of the later
\* attempts is made only when the first attempt found nothing
FindQuestion(pokemon, used, asked) ==
    With(ScanStrategies(StrategiesToUse(used), pokemon, asked).question, LAMBDA first :
    With(IF first = NoQuestion
         THEN ScanStrategies(StrategiesToUse({}), pokemon, asked).question
         ELSE NoQuestion,
         LAMBDA rescan : Attempts(0, used, first, rescan)))

\* generateNextQuestion without the exit on the number of answers
BudgetNeverSpent(pokemon, answersLength) == Len(pokemon) <= 1

\* the two early exits of generateNextQuestion
BudgetSpent(pokemon, answersLength) ==
    Len(pokemon) <= 1 \/ answersLength >= MaxQuestions

\* generateNextQuestion as a function of what it reads: complete says that it
\* called completeGame; otherwise question is the new currentQuestion
GenerateNextQuestion(pokemon, answersLength, used, asked) ==
    IF BudgetSpent(pokemon, answersLength)
    THEN [complete |-> TRUE, question |-> NoQuestion, used |-> used, asked |-> asked,
          scans |-> 0]
    ELSE With(FindQuestion(pokemon, used, asked), LAMBDA found :
             IF found.question # NoQuestion
             THEN [complete |-> FALSE, question |-> found.question,
                   used |-> found.used \cup {found.question.type},
                   asked |-> asked \cup {QuestionKey(found.question)},
                   scans |-> found.scans]
             ELSE [complete |-> TRUE, question |-> NoQuestion,
                   used |-> found.used, asked |-> asked, scans |-> found.scans])

(***************************************************************************)
(* A game on an engine that was just constructed: startNewGame on the      *)
(* dataset `all`, then answerQuestion for each of `responses`, every call  *)
(* awaited.  [possible, question, complete, used, asked, questions] is the *)
(* population, the pending question, the completion flag, the two tracking *)
(* sets and the questions answered so far.                                 *)
(***************************************************************************)
FreshStart(all) ==
    With(GenerateNextQuestion(all, 0, {}, {}), LAMBDA next :
        [possible |-> all, question |-> next.question, complete |-> next.complete,
         used |-> next.used, asked |-> next.asked, questions |-> <<>>])

FreshAnswer(state, response) ==
    IF state.question = NoQuestion \/ state.complete THEN state
    ELSE With(IF response # "unknown" /\ Includes(StrategyTypes, state.question.type)
              THEN FilterPokemon(state.question.type, state.possible, state.question,
                                 response)
              ELSE state.possible,
              LAMBDA possible :
         With(GenerateNextQuestion(possible, Len(state.questions) + 1, state.used,
                                   state.asked),
              LAMBDA next :
                  [possible |-> possible, question |-> next.question,
                   complete |-> next.complete, used |-> next.used, asked |-> next.asked,
                   questions |-> Append(state.questions, state.question)]))

RECURSIVE FreshGame(_, _)
FreshGame(all, responses) ==
    IF responses = <<>> THEN FreshStart(all)
    ELSE With(FreshGame(all, SubSeq(responses, 1, Len(responses) - 1)),
              LAMBDA state : FreshAnswer(state, responses[Len(responses)]))

(***************************************************************************)
(* The data the provider serves.  SimplePokemon is the record the loader   *)
(* builds (loadSimplePokemon); the rosters are drawn from a pool that has  *)
(* ties, a twin pair no strategy can tell apart, an entity without color   *)
(* and every flag both set and unset.                                      *)
(***************************************************************************)
SimplePokemon(id, name, weight, height, types, generation, flags, evolution, color, weaknesses, strengths) ==
    [id |-> id, name |-> name, weight |-> weight, height |-> height, types |-> types,
     generation |-> generation, isLegendary |-> flags[1], isMythical |-> flags[2],
     isBaby |-> flags[3], hasEvolution |-> evolution[1], isEvolved |-> evolution[2],
     color |-> color, weaknesses |-> weaknesses, strengths |-> strengths]

Pool ==
    << SimplePokemon(1, Str("a", ""), 10, 5, <<Fire>>, 1, <<FALSE, FALSE, FALSE>>,
                     <<TRUE, FALSE>>, Red, <<Water>>, <<Grass>>),
       SimplePokemon(2, Str("b", ""), 90, 5, <<Water>>, 1, <<FALSE, FALSE, FALSE>>,
                     <<TRUE, FALSE>>, Red, <<Water>>, <<Grass>>),
       SimplePokemon(3, Str("c", ""), 90, 12, <<Water>>, 2, <<FALSE, FALSE, TRUE>>,
                     <<TRUE, FALSE>>, Red, <<Water>>, <<Grass>>),
       SimplePokemon(4, Str("d", ""), 10, 5, <<Fire>>, 1, <<FALSE, FALSE, FALSE>>,
                     <<TRUE, FALSE>>, Red, <<Water>>, <<Grass>>),
       SimplePokemon(5, Str("e", ""), 10, 5, <<Fire, Rock>>, 1, <<TRUE, TRUE, FALSE>>,
                     <<TRUE, TRUE>>, UnknownColor, <<Water, Ice>>, <<Grass, Ice>>) >>

MaxRoster == 3

\* the increasing index sequences of length n over 1..m
Increasing(n, m) == { f \in [1..n -> 1..m] : \A i \in 1..(n - 1) : f[i] < f[i + 1] }

\* every roster of at most MaxRoster pool entities, in the order of the pool
Rosters ==
    UNION { { [i \in 1..n |-> Pool[f[i]]] : f \in Increasing(n, Len(Pool)) } : n \in 0..MaxRoster }

MaxSmallRoster == 2

\* the rosters for the runs in which the caches are cleared or a snapshot is held
SmallRosters == { r \in Rosters : Len(r) <= MaxSmallRoster }

\* a dataset with enough variety for a game to use up its question budget
BudgetRoster ==
    << SimplePokemon(11, Str("p", ""), 10, 3, <<Fire>>, 1, <<TRUE, FALSE, FALSE>>,
                     <<TRUE, FALSE>>, Red, <<Water>>, <<Grass>>),
       SimplePokemon(12, Str("q", ""), 20, 6, <<Water>>, 2, <<FALSE, TRUE, FALSE>>,
                     <<FALSE, TRUE>>, Blue, <<Grass>>, <<Fire>>),
       SimplePokemon(13, Str("r", ""), 30, 9, <<Grass>>, 3, <<FALSE, FALSE, TRUE>>,
                     <<TRUE, TRUE>>, Green, <<Fire>>, <<Water>>),
       SimplePokemon(14, Str("s", ""), 40, 12, <<Electric>>, 4, <<FALSE, FALSE, FALSE>>,
                     <<FALSE, FALSE>>, UnknownColor, <<Rock>>, <<Ice>>) >>

\* a dataset on which a type that was asked has, later in the game, a more
\* even question than every type not asked yet
PreferenceRoster ==
    << SimplePokemon(21, Str("t", ""), 10, 5, <<Fire, Water>>, 1, <<FALSE, FALSE, TRUE>>,
                     <<TRUE, FALSE>>, Red, <<Water>>, <<Grass>>),
       SimplePokemon(22, Str("u", ""), 10, 5, <<Water>>, 1, <<FALSE, FALSE, FALSE>>,
                     <<TRUE, FALSE>>, Red, <<Water>>, <<Grass>>),
       SimplePokemon(23, Str("v", ""), 10, 5, <<Grass>>, 1, <<FALSE, FALSE, FALSE>>,
                     <<TRUE, FALSE>>, Red, <<Water>>, <<Grass>>),
       SimplePokemon(24, Str("w", ""), 10, 5, <<Grass>>, 1, <<FALSE, FALSE, FALSE>>,
                     <<TRUE, FALSE>>, Red, <<Water>>, <<Grass>>),
       SimplePokemon(25, Str("x", ""), 10, 5, <<Fire>>, 1, <<TRUE, FALSE, FALSE>>,
                     <<TRUE, FALSE>>, Red, <<Water>>, <<Grass>>) >>

\* datasets of entities that differ in weight and height only
NumericKinds == << <<10, 5>>, <<20, 5>>, <<20, 8>>, <<30, 8>> >>

MaxNumericRoster == 4

NumericEntity(id, kind) ==
    SimplePokemon(id, Str("n", id), kind[1], kind[2], <<Fire>>, 1, <<FALSE, FALSE, FALSE>>,
                  <<TRUE, FALSE>>, Red, <<Water>>, <<Grass>>)

NumericRosters ==
    UNION {{[i \in 1..n |-> NumericEntity(i, NumericKinds[kinds[i]])] :
                kinds \in [1..n -> 1..Len(NumericKinds)]} : n \in 1..MaxNumericRoster}

\* the full Pokemon record getPokemonById returns, reduced to what identifies it
Pokemon(simple) == [id |-> simple.id, name |-> simple.name]

NoPokemon == [id |-> 0, name |-> EmptyString]

(***************************************************************************)
(* State.                                                                  *)
(***************************************************************************)
VARIABLES
    roster,              \* what the server serves: the result of a successful load
    pokemonCache,        \* dataLoader: pokemonCache is set
    simplePokemonCache,  \* dataLoader: simplePokemonCache is set
    allPokemon,          \* engine: this.allPokemon
    gameState,           \* engine: this.gameState; answers and possiblePokemon are references
    answersHeap,         \* the answers arrays that are referenced, by reference
    pokemonHeap,         \* the possiblePokemon arrays that are referenced, by reference
    usedQuestionTypes,   \* engine: this.usedQuestionTypes
    askedQuestions,      \* engine: this.askedQuestions
    pending,             \* the async calls suspended at an await
    snapshot,            \* the object the caller got from getGameState and holds
    lastOp,              \* the step the engine or the loader took last
    retry,               \* fetcher: the fetchWithRetry call in flight
    run,                 \* fetcher: the fetchAllPokemonData call in flight
    loader               \* loaders: the cached datasets and the last load call

vars ==
    <<roster, pokemonCache, simplePokemonCache, allPokemon, gameState, answersHeap,
      pokemonHeap, usedQuestionTypes, askedQuestions, pending, snapshot, lastOp,
      retry, run, loader>>

engineVars ==
    <<allPokemon, gameState, answersHeap, pokemonHeap, usedQuestionTypes, askedQuestions>>

\* this.gameState.answers and this.gameState.possiblePokemon, dereferenced
Answers == answersHeap[gameState.answers]

PossiblePokemon == pokemonHeap[gameState.possiblePokemon]

NoSnapshot ==
    [taken |-> FALSE, currentQuestion |-> NoQuestion, answers |-> 0, possiblePokemon |-> 0,
     gameComplete |-> FALSE, guessedPokemon |-> NoPokemon]

\* op is the call or the resumption, accepted says that it went past its guards
Op(op, outcome, accepted) == [op |-> op, outcome |-> outcome, accepted |-> accepted]

\* a reference no snapshot holds; the engine gives up its own when it allocates
NewAnswersRef == IF snapshot.taken /\ snapshot.answers = 1 THEN 2 ELSE 1

NewPokemonRef == IF snapshot.taken /\ snapshot.possiblePokemon = 1 THEN 2 ELSE 1

\* the references held by the engine (engineRef) and by the snapshot `snap`
Live(engineRef, snap, snapRef) == {engineRef} \cup (IF snap.taken THEN {snapRef} ELSE {})

\* the heap with `ref` bound to `array`, cut down to the references in `live`
Store(heap, ref, array, live) == [r \in live |-> IF r = ref THEN array ELSE heap[r]]

\* no dataset was built and no load call was made: simple and minimal are the
\* arrays in simplePokemonCache (dataLoader) and minimalPokemonCache
\* (dataLoaderOptimized), numbered as they were built, 0 for null; chains and
\* types say that allEvolutionChainsCache and allTypesCache are set; fn,
\* fetched, outcome and dataset describe the last load call
NoLoads ==
    [built |-> 0, simple |-> 0, minimal |-> 0, chains |-> FALSE, types |-> FALSE,
     fn |-> "", fetched |-> {}, outcome |-> "", dataset |-> 0]

\* no fetchWithRetry call was made
NotCalled ==
    [phase |-> "idle", script |-> "", maxRetries |-> 0, attempt |-> 0, outcomes |-> <<>>,
     delays |-> <<>>, returned |-> 0, thrown |-> 0]

\* no fetchAllPokemonData call was made
NotRunning ==
    [phase |-> "idle", list |-> <<>>, index |-> 0, skippedAlternateForms |-> 0,
     processedCount |-> 0, fetched |-> <<>>, failed |-> <<>>]

\* constructor, with the server serving one of `rosters`; the fetcher is a
\* script of its own and is not running
Constructed(rosters) ==
    /\ roster \in rosters
    /\ pokemonCache = FALSE
    /\ simplePokemonCache = FALSE
    /\ allPokemon = <<>>
    /\ gameState = [currentQuestion |-> NoQuestion, answers |-> 1, possiblePokemon |-> 1,
                    gameComplete |-> FALSE, guessedPokemon |-> NoPokemon]
    /\ answersHeap = [r \in {1} |-> <<>>]
    /\ pokemonHeap = [r \in {1} |-> <<>>]
    /\ usedQuestionTypes = {}
    /\ askedQuestions = {}
    /\ pending = {}
    /\ snapshot = NoSnapshot
    /\ lastOp = Op("constructor", "", TRUE)
    /\ retry = NotCalled
    /\ run = NotRunning
    /\ loader = NoLoads

Init == Constructed(Rosters)

InitSmall == Constructed(SmallRosters)

InitBudget == Constructed({BudgetRoster})

InitPreference == Constructed({PreferenceRoster})

InitNumeric == Constructed(NumericRosters)

(***************************************************************************)
(* The data loader (dataLoader.ts).  A call runs synchronously up to its   *)
(* first fetch: what it finds in the caches it finds at the call.          *)
(***************************************************************************)
\* loadSimplePokemon at the call: served from simplePokemonCache, built from
\* pokemonCache (the species fetches never throw), or fetched
LoadSimplePokemonMode ==
    IF simplePokemonCache THEN "cached" ELSE IF pokemonCache THEN "enhance" ELSE "fetch"

\* loadAllPokemon at the call, as getPokemonById reaches it
LoadAllPokemonMode == IF pokemonCache THEN "cached" ELSE "fetch"

\* allPokemon.find(pokemon => pokemon.id === id) ?? null
RECURSIVE FindById(_, _)
FindById(list, id) ==
    IF list = <<>> THEN NoPokemon
    ELSE IF Head(list).id = id THEN Pokemon(Head(list)) ELSE FindById(Tail(list), id)

Suspended(op, caller, mode, id, stale) ==
    [op |-> op, caller |-> caller, mode |-> mode, id |-> id, stale |-> stale]

\* how a fetch of a load call ends; the aggregated file may be missing
FetchEnds == {"ok", "throws"}

MinimalFetchEnds == {"ok", "unavailable", "throws"}

\* dataLoader.loadSimplePokemon as one call, `list` being how the fetch of the
\* list ends: the caches, the fetches and the result of the call
LoadSimplePokemonCall(list) ==
    IF simplePokemonCache
    THEN [pokemonCache |-> pokemonCache, simplePokemonCache |-> TRUE,
          built |-> loader.built, simple |-> loader.simple, fetched |-> {},
          outcome |-> "returned", dataset |-> loader.simple]
    ELSE IF ~pokemonCache /\ list = "throws"
    THEN [pokemonCache |-> FALSE, simplePokemonCache |-> FALSE,
          built |-> loader.built, simple |-> loader.simple,
          fetched |-> {"pokemon-list"}, outcome |-> "thrown", dataset |-> 0]
    ELSE [pokemonCache |-> TRUE, simplePokemonCache |-> TRUE,
          built |-> loader.built + 1, simple |-> loader.built + 1,
          fetched |-> (IF pokemonCache THEN {} ELSE {"pokemon-list"})
                      \cup (IF roster = <<>> THEN {}
                            ELSE IF pokemonCache THEN {"pokemon-species"}
                            ELSE {"pokemon", "pokemon-species"}),
          outcome |-> "returned", dataset |-> loader.built + 1]

\* dataLoaderOptimized.loadMinimalPokemon as one call; minimal, chains, types
\* and list are how the fetches of the aggregated files and of the list end
LoadMinimalPokemonCall(minimal, chains, types, list) ==
    IF loader.minimal # 0
    THEN [pokemonCache |-> pokemonCache, simplePokemonCache |-> simplePokemonCache,
          built |-> loader.built, simple |-> loader.simple, minimal |-> loader.minimal,
          chains |-> loader.chains, types |-> loader.types, fetched |-> {},
          outcome |-> "returned", dataset |-> loader.minimal]
    ELSE IF minimal = "throws"
    THEN [pokemonCache |-> pokemonCache, simplePokemonCache |-> simplePokemonCache,
          built |-> loader.built, simple |-> loader.simple, minimal |-> 0,
          chains |-> loader.chains, types |-> loader.types,
          fetched |-> {"minimal-pokemon"}, outcome |-> "thrown", dataset |-> 0]
    ELSE IF minimal = "unavailable"
    THEN With(LoadSimplePokemonCall(list), LAMBDA original :
             [pokemonCache |-> original.pokemonCache,
              simplePokemonCache |-> original.simplePokemonCache,
              built |-> original.built, simple |-> original.simple, minimal |-> 0,
              chains |-> loader.chains, types |-> loader.types,
              fetched |-> {"minimal-pokemon"} \cup original.fetched,
              outcome |-> original.outcome, dataset |-> original.dataset])
    ELSE IF ~loader.chains /\ chains = "throws"
    THEN [pokemonCache |-> pokemonCache, simplePokemonCache |-> simplePokemonCache,
          built |-> loader.built, simple |-> loader.simple, minimal |-> 0,
          chains |-> FALSE, types |-> loader.types,
          fetched |-> {"minimal-pokemon", "all-evolution-chains"},
          outcome |-> "thrown", dataset |-> 0]
    ELSE IF ~loader.types /\ types = "throws"
    THEN [pokemonCache |-> pokemonCache, simplePokemonCache |-> simplePokemonCache,
          built |-> loader.built, simple |-> loader.simple, minimal |-> 0,
          chains |-> TRUE, types |-> FALSE,
          fetched |-> {"minimal-pokemon", "all-types"}
                      \cup (IF loader.chains THEN {} ELSE {"all-evolution-chains"}),
          outcome |-> "thrown", dataset |-> 0]
    ELSE [pokemonCache |-> pokemonCache, simplePokemonCache |-> simplePokemonCache,
          built |-> loader.built + 1, simple |-> loader.simple,
          minimal |-> loader.built + 1, chains |-> TRUE, types |-> TRUE,
          fetched |-> {"minimal-pokemon"}
                      \cup (IF loader.chains THEN {} ELSE {"all-evolution-chains"})
                      \cup (IF loader.types THEN {} ELSE {"all-types"}),
          outcome |-> "returned", dataset |-> loader.built + 1]

\* the datasets one run builds
MaxLoads == 3

\* a caller awaits dataLoader.loadSimplePokemon()
LoadSimplePokemon(list) ==
    /\ loader.built < MaxLoads
    /\ \E call \in {LoadSimplePokemonCall(list)} :
           /\ pokemonCache' = call.pokemonCache
           /\ simplePokemonCache' = call.simplePokemonCache
           /\ loader' = [loader EXCEPT !.built = call.built, !.simple = call.simple,
                                       !.fn = "loadSimplePokemon",
                                       !.fetched = call.fetched,
                                       !.outcome = call.outcome,
                                       !.dataset = call.dataset]
           /\ lastOp' = Op("loadSimplePokemon", call.outcome, TRUE)
    /\ UNCHANGED <<retry, run, roster, allPokemon, gameState, answersHeap, pokemonHeap,
                   usedQuestionTypes, askedQuestions, pending, snapshot>>

\* a caller awaits dataLoaderOptimized.loadMinimalPokemon()
LoadMinimalPokemon(minimal, chains, types, list) ==
    /\ loader.built < MaxLoads
    /\ \E call \in {LoadMinimalPokemonCall(minimal, chains, types, list)} :
           /\ pokemonCache' = call.pokemonCache
           /\ simplePokemonCache' = call.simplePokemonCache
           /\ loader' = [built |-> call.built, simple |-> call.simple,
                         minimal |-> call.minimal, chains |-> call.chains,
                         types |-> call.types, fn |-> "loadMinimalPokemon",
                         fetched |-> call.fetched, outcome |-> call.outcome,
                         dataset |-> call.dataset]
           /\ lastOp' = Op("loadMinimalPokemon", call.outcome, TRUE)
    /\ UNCHANGED <<retry, run, roster, allPokemon, gameState, answersHeap, pokemonHeap,
                   usedQuestionTypes, askedQuestions, pending, snapshot>>

\* dataLoaderOptimized.clearPokemonCache()
ClearPokemonCacheOptimized ==
    /\ loader' = [loader EXCEPT !.minimal = 0, !.chains = FALSE, !.types = FALSE]
    /\ lastOp' = Op("clearPokemonCache", "optimized", TRUE)
    /\ UNCHANGED <<retry, run, roster, pokemonCache, simplePokemonCache, allPokemon, gameState,
                   answersHeap, pokemonHeap, usedQuestionTypes, askedQuestions, pending,
                   snapshot>>

\* dataLoader.clearPokemonCache()
ClearPokemonCache ==
    /\ pokemonCache' = FALSE
    /\ simplePokemonCache' = FALSE
    /\ lastOp' = Op("clearPokemonCache", "", TRUE)
    /\ UNCHANGED <<retry, run, loader, roster, allPokemon, gameState, answersHeap, pokemonHeap,
                   usedQuestionTypes, askedQuestions, pending, snapshot>>

(***************************************************************************)
(* The engine.                                                             *)
(***************************************************************************)
\* completeGame up to its await: the lookup it suspends on, if it makes one
CompleteGamePending(possible, cached) ==
    IF Len(possible) > 0
    THEN {Suspended("completeGame", "", IF cached THEN "cached" ELSE "fetch",
                    possible[1].id, FALSE)}
    ELSE {}

\* a startNewGame after which the suspended lookups assign to the new object
DiscardNothing(calls) == calls

\* a game state object that is replaced stays the target of the lookups
\* suspended on it: `this.gameState.guessedPokemon = await ...` takes the
\* object before it awaits.  Of the lookups served from the cache whose object
\* was replaced the latest is kept: nothing can reach what the others assign
Discard(calls) ==
    LET live == { c \in calls : c.op = "completeGame" /\ ~c.stale }
        forgotten == IF live = {} THEN {}
                     ELSE { c \in calls : c.op = "completeGame" /\ c.stale /\ c.mode = "cached" }
    IN  { IF c \in live THEN [c EXCEPT !.stale = TRUE] ELSE c : c \in calls \ forgotten }

\* startNewGame without askedQuestions.clear()
FirstQuestionKeepingAsked(all) == GenerateNextQuestion(all, 0, {}, askedQuestions)

\* startNewGame without usedQuestionTypes.clear()
FirstQuestionKeepingUsed(all) == GenerateNextQuestion(all, 0, usedQuestionTypes, {})

\* startNewGame: both tracking sets are cleared, then generateNextQuestion runs
\* on the new game state
FirstQuestion(all) == GenerateNextQuestion(all, 0, {}, {})

\* startNewGame from the new game state object on, with this.allPokemon = all
StartNewGameFrom(all, calls, cached) ==
    \E next \in {FirstQuestion(all)} :
        /\ gameState' = [currentQuestion |-> next.question,
                         answers |-> NewAnswersRef,
                         possiblePokemon |-> NewPokemonRef,
                         gameComplete |-> next.complete,
                         guessedPokemon |-> NoPokemon]
        /\ answersHeap' = Store(answersHeap, NewAnswersRef, <<>>,
                                Live(NewAnswersRef, snapshot, snapshot.answers))
        /\ pokemonHeap' = Store(pokemonHeap, NewPokemonRef, all,
                                Live(NewPokemonRef, snapshot, snapshot.possiblePokemon))
        /\ usedQuestionTypes' = next.used
        /\ askedQuestions' = next.asked
        /\ pending' = Discard(calls)
                      \cup (IF next.complete
                            THEN CompleteGamePending(all, cached)
                            ELSE {})

\* initialize(), called by the application: suspends on loadSimplePokemon
Initialize ==
    /\ lastOp.op = "constructor"
    /\ pending' = pending \cup {Suspended("initialize", "initialize", LoadSimplePokemonMode, 0, FALSE)}
    /\ lastOp' = Op("initialize", "called", TRUE)
    /\ UNCHANGED <<retry, run, loader, roster, pokemonCache, simplePokemonCache, allPokemon, gameState,
                   answersHeap, pokemonHeap, usedQuestionTypes, askedQuestions, snapshot>>

\* startNewGame(): suspends on initialize() when nothing is loaded
StartNewGame ==
    IF Len(allPokemon) = 0
    THEN /\ pending' = pending
                       \cup {Suspended("initialize", "startNewGame", LoadSimplePokemonMode, 0, FALSE)}
         /\ lastOp' = Op("startNewGame", "awaits initialize", TRUE)
         /\ UNCHANGED <<retry, run, loader, roster, pokemonCache, simplePokemonCache, allPokemon, gameState,
                        answersHeap, pokemonHeap, usedQuestionTypes, askedQuestions, snapshot>>
    ELSE /\ StartNewGameFrom(allPokemon, pending, pokemonCache)
         /\ lastOp' = Op("startNewGame", "started", TRUE)
         /\ UNCHANGED <<retry, run, loader, roster, pokemonCache, simplePokemonCache, allPokemon, snapshot>>

\* loadSimplePokemon resolves: initialize() goes on after its await, and so
\* does the startNewGame() that awaited it
InitializeResolved(call) ==
    /\ call \in pending
    /\ call.op = "initialize"
    /\ pokemonCache' = (pokemonCache \/ call.mode = "fetch")
    /\ simplePokemonCache' = (simplePokemonCache \/ call.mode # "cached")
    /\ allPokemon' = roster
    /\ IF call.caller = "startNewGame"
       THEN StartNewGameFrom(roster, pending \ {call}, pokemonCache')
       ELSE /\ gameState' = [gameState EXCEPT !.possiblePokemon = NewPokemonRef]
            /\ pokemonHeap' = Store(pokemonHeap, NewPokemonRef, roster,
                                    Live(NewPokemonRef, snapshot, snapshot.possiblePokemon))
            /\ pending' = pending \ {call}
            /\ UNCHANGED <<answersHeap, usedQuestionTypes, askedQuestions>>
    /\ lastOp' = Op(call.caller, "resolved", TRUE)
    /\ UNCHANGED <<retry, run, loader, roster, snapshot>>

\* a startNewGame that would make the new game state object before it loads
InitializeRejectedHalfway(call) ==
    /\ call \in pending
    /\ call.op = "initialize"
    /\ call.mode = "fetch"
    /\ gameState' = [gameState EXCEPT !.currentQuestion = NoQuestion,
                                      !.gameComplete = FALSE,
                                      !.guessedPokemon = NoPokemon]
    /\ usedQuestionTypes' = {}
    /\ askedQuestions' = {}
    /\ pending' = pending \ {call}
    /\ lastOp' = Op(call.caller, "rejected", TRUE)
    /\ UNCHANGED <<retry, run, loader, roster, pokemonCache, simplePokemonCache, allPokemon, answersHeap,
                   pokemonHeap, snapshot>>

\* loadSimplePokemon throws (the list fetch failed): initialize() rethrows
InitializeRejected(call) ==
    /\ call \in pending
    /\ call.op = "initialize"
    /\ call.mode = "fetch"
    /\ pending' = pending \ {call}
    /\ lastOp' = Op(call.caller, "rejected", TRUE)
    /\ UNCHANGED <<retry, run, loader, roster, pokemonCache, simplePokemonCache, allPokemon, gameState,
                   answersHeap, pokemonHeap, usedQuestionTypes, askedQuestions, snapshot>>

Responses == {"yes", "no", "unknown"}

\* an answerQuestion that returns at once only when the game is complete
IgnoredOnlyWhenComplete(state) == state.gameComplete

\* answerQuestion: the guard under which the call returns at once
Ignored(state) == state.currentQuestion = NoQuestion \/ state.gameComplete

\* an answerQuestion that passes every answer to the filter
FilteredAlways(question, response) == Includes(StrategyTypes, question.type)

\* answerQuestion: whether the answer is passed to a strategy's filter
Filtered(question, response) ==
    response # "unknown" /\ Includes(StrategyTypes, question.type)

\* an answerQuestion that keeps the yes-side whatever the answer was
NarrowedAsYes(possible, question, response) ==
    IF Filtered(question, response)
    THEN FilterPokemon(question.type, possible, question, "yes")
    ELSE possible

\* answerQuestion: this.gameState.possiblePokemon after the answer
Narrowed(possible, question, response) ==
    IF Filtered(question, response)
    THEN FilterPokemon(question.type, possible, question, response)
    ELSE possible

\* an answerQuestion that keeps unknown answers out of the history
RecordedUnlessUnknown(answers, question, response) ==
    IF response = "unknown" THEN answers
    ELSE Append(answers, [response |-> response, question |-> question])

\* answerQuestion: this.gameState.answers after answers.push(answer)
Recorded(answers, question, response) ==
    Append(answers, [response |-> response, question |-> question])

\* the continuation of an answerQuestion call that installed a question: the
\* call waits at `await this.generateNextQuestion()` with nothing left to do
AnswerQuestionAwaiting == {Suspended("answerQuestion", "", "settled", 0, FALSE)}

\* answerQuestion(response) up to its first await; `awaiting` is what the
\* model keeps of calls that installed a question and have not returned
AnswerQuestionUpToAwait(response, awaiting) ==
    IF Ignored(gameState)
    THEN /\ lastOp' = Op("answerQuestion", "ignored", FALSE)
         /\ UNCHANGED <<retry, run, loader, roster, pokemonCache, simplePokemonCache, allPokemon, gameState,
                        answersHeap, pokemonHeap, usedQuestionTypes, askedQuestions,
                        pending, snapshot>>
    ELSE LET question == gameState.currentQuestion
             answers == Recorded(Answers, question, response)
             ref == IF Filtered(question, response)
                    THEN NewPokemonRef
                    ELSE gameState.possiblePokemon
         IN  \E possible \in {Narrowed(PossiblePokemon, question, response)} :
             \E next \in {GenerateNextQuestion(possible, Len(answers), usedQuestionTypes,
                                               askedQuestions)} :
             /\ gameState' = [gameState EXCEPT !.currentQuestion = next.question,
                                               !.possiblePokemon = ref,
                                               !.gameComplete = next.complete]
             /\ answersHeap' = [answersHeap EXCEPT ![gameState.answers] = answers]
             /\ pokemonHeap' = Store(pokemonHeap, ref, possible,
                                     Live(ref, snapshot, snapshot.possiblePokemon))
             /\ usedQuestionTypes' = next.used
             /\ askedQuestions' = next.asked
             /\ pending' = pending
                           \cup (IF next.complete
                                 THEN CompleteGamePending(possible, pokemonCache)
                                 ELSE awaiting)
             /\ lastOp' = Op("answerQuestion", response, TRUE)
             /\ UNCHANGED <<retry, run, loader, roster, pokemonCache, simplePokemonCache, allPokemon, snapshot>>

\* answerQuestion(response), with the calls that installed a question taken
\* to have returned
AnswerQuestion(response) == AnswerQuestionUpToAwait(response, {})

\* answerQuestion(response), called while earlier calls may not have returned
AnswerQuestionOverlapping(response) ==
    AnswerQuestionUpToAwait(response, AnswerQuestionAwaiting)

\* the promise of an answerQuestion call that installed a question resolves
AnswerQuestionReturned(call) ==
    /\ call \in pending
    /\ call.op = "answerQuestion"
    /\ pending' = pending \ {call}
    /\ lastOp' = Op("answerQuestion", "returned", FALSE)
    /\ UNCHANGED <<retry, run, loader, roster, pokemonCache, simplePokemonCache, allPokemon, gameState,
                   answersHeap, pokemonHeap, usedQuestionTypes, askedQuestions, snapshot>>

\* getPokemonById resolves with what it found: completeGame() goes on after
\* its await and assigns the guess in the game state object it was called on
CompleteGameResolved(call) ==
    /\ call \in pending
    /\ call.op = "completeGame"
    /\ pokemonCache' = (pokemonCache \/ call.mode = "fetch")
    /\ gameState' = IF call.stale THEN gameState
                    ELSE [gameState EXCEPT !.guessedPokemon = FindById(roster, call.id)]
    /\ pending' = pending \ {call}
    /\ lastOp' = Op("completeGame", "found", ~call.stale)
    /\ UNCHANGED <<retry, run, loader, roster, simplePokemonCache, allPokemon, answersHeap, pokemonHeap,
                   usedQuestionTypes, askedQuestions, snapshot>>

\* getPokemonById catches the failed list fetch and resolves with null
CompleteGameNotFound(call) ==
    /\ call \in pending
    /\ call.op = "completeGame"
    /\ call.mode = "fetch"
    /\ gameState' = IF call.stale THEN gameState
                    ELSE [gameState EXCEPT !.guessedPokemon = NoPokemon]
    /\ pending' = pending \ {call}
    /\ lastOp' = Op("completeGame", "null", ~call.stale)
    /\ UNCHANGED <<retry, run, loader, roster, pokemonCache, simplePokemonCache, allPokemon, answersHeap,
                   pokemonHeap, usedQuestionTypes, askedQuestions, snapshot>>

\* getGameState(): { ...this.gameState }, which the caller keeps
GetGameState ==
    /\ snapshot' = [taken |-> TRUE,
                    currentQuestion |-> gameState.currentQuestion,
                    answers |-> gameState.answers,
                    possiblePokemon |-> gameState.possiblePokemon,
                    gameComplete |-> gameState.gameComplete,
                    guessedPokemon |-> gameState.guessedPokemon]
    /\ answersHeap' = [r \in {gameState.answers} |-> answersHeap[r]]
    /\ pokemonHeap' = [r \in {gameState.possiblePokemon} |-> pokemonHeap[r]]
    /\ UNCHANGED <<retry, run, loader, roster, pokemonCache, simplePokemonCache, allPokemon, gameState,
                   usedQuestionTypes, askedQuestions, pending, lastOp>>

(***************************************************************************)
(* The caller changes the object it got from getGameState.                 *)
(***************************************************************************)
\* snapshot.answers.pop()
MutateSnapshotAnswers ==
    /\ snapshot.taken
    /\ Len(answersHeap[snapshot.answers]) > 0
    /\ answersHeap' = [answersHeap EXCEPT ![snapshot.answers] = SubSeq(@, 1, Len(@) - 1)]
    /\ UNCHANGED <<retry, run, loader, roster, pokemonCache, simplePokemonCache, allPokemon, gameState,
                   pokemonHeap, usedQuestionTypes, askedQuestions, pending, snapshot,
                   lastOp>>

\* snapshot.possiblePokemon.pop()
MutateSnapshotPokemon ==
    /\ snapshot.taken
    /\ Len(pokemonHeap[snapshot.possiblePokemon]) > 0
    /\ pokemonHeap' = [pokemonHeap EXCEPT ![snapshot.possiblePokemon] = SubSeq(@, 1, Len(@) - 1)]
    /\ UNCHANGED <<retry, run, loader, roster, pokemonCache, simplePokemonCache, allPokemon, gameState,
                   answersHeap, usedQuestionTypes, askedQuestions, pending, snapshot,
                   lastOp>>

\* snapshot.currentQuestion = null
MutateSnapshotField ==
    /\ snapshot.taken
    /\ snapshot.currentQuestion # NoQuestion
    /\ snapshot' = [snapshot EXCEPT !.currentQuestion = NoQuestion]
    /\ UNCHANGED <<retry, run, loader, roster, pokemonCache, simplePokemonCache, allPokemon, gameState,
                   answersHeap, pokemonHeap, usedQuestionTypes, askedQuestions, pending, lastOp>>

(***************************************************************************)
(* The elimination explainer (explainWhyPokemonWasEliminated), which the   *)
(* application calls with the name the player typed.  A name is matched    *)
(* without regard to case; the history is replayed in its order.           *)
(***************************************************************************)
\* String.prototype.toLowerCase on the letters the names are written in
ToLowerCase(c) ==
    CASE c = "A" -> "a" [] c = "B" -> "b" [] c = "C" -> "c" [] c = "D" -> "d"
      [] c = "E" -> "e" [] c = "P" -> "p" [] c = "Q" -> "q" [] c = "R" -> "r"
      [] c = "S" -> "s" [] c = "T" -> "t" [] c = "U" -> "u" [] c = "V" -> "v"
      [] c = "W" -> "w" [] c = "X" -> "x" [] c = "Z" -> "z"
      [] OTHER -> c

LowerCased(s) == IF s = EmptyString THEN EmptyString ELSE <<ToLowerCase(s[1])>> \o Tail(s)

\* the first entity of `all` whose name is `name` but for case: <<entity>>, or
\* <<>> when there is none
RECURSIVE FindByName(_, _)
FindByName(all, name) ==
    IF all = <<>> THEN <<>>
    ELSE IF LowerCased(Head(all).name) = LowerCased(name) THEN <<Head(all)>>
    ELSE FindByName(Tail(all), name)

\* the answer is a yes or a no and the filter of the question's strategy,
\* applied with that answer, does not keep the entity
Eliminates(answer, entity) ==
    /\ answer.response # "unknown"
    /\ Includes(StrategyTypes, answer.question.type)
    /\ FilterPokemon(answer.question.type, <<entity>>, answer.question, answer.response) = <<>>

\* the replay of the history for the entity
RECURSIVE EliminatedBy(_, _)
EliminatedBy(answers, entity) ==
    IF answers = <<>> THEN <<>>
    ELSE With(EliminatedBy(SubSeq(answers, 1, Len(answers) - 1), entity), LAMBDA before :
             IF Eliminates(answers[Len(answers)], entity)
             THEN Append(before, [question |-> answers[Len(answers)].question.text,
                                  answer |-> answers[Len(answers)].response])
             ELSE before)

\* explainWhyPokemonWasEliminated(name) on the dataset `all` and the history `answers`
ExplainElimination(name, all, answers) ==
    With(FindByName(all, name), LAMBDA match :
        IF match = <<>>
        THEN [found |-> FALSE, pokemon |-> <<>>, eliminatedBy |-> <<>>]
        ELSE [found |-> TRUE, pokemon |-> match,
              eliminatedBy |-> EliminatedBy(answers, match[1])])

(***************************************************************************)
(* The data fetcher (scripts/fetch-pokemon-data.ts, "current", and the     *)
(* earlier copy of the script, "earlier").  An action is one synchronous   *)
(* stretch between two awaits.                                             *)
(***************************************************************************)
DefaultMaxRetries == 3

BaseDelay == 1000

AlternateFormsFrom == 10000

Scripts == {"current", "earlier"}

\* how a fetch attempt ends: an OK response with a body that parses, a
\* response with a non-OK status, a rejected fetch, a body that does not parse
FetchOutcomes == {"ok", "notOk", "rejected", "badJson"}

RECURSIVE Pow(_, _)
\* Math.pow(base, exponent) for a natural exponent
Pow(base, exponent) == IF exponent = 0 THEN 1 ELSE base * Pow(base, exponent - 1)

\* the wait after the failed attempt `attempt`
Delay(script, attempt) ==
    IF script = "current" THEN BaseDelay * attempt ELSE BaseDelay * Pow(2, attempt - 1)

\* the attempt after which the error is thrown on
LastAttemptNever(attempt, maxRetries) == FALSE

LastAttempt(attempt, maxRetries) == attempt = maxRetries

\* the call up to its first await; with maxRetries below 1 the loop is not
\* entered: the current script throws its own error, the earlier one returns
\* undefined
Called(script, maxRetries) ==
    [NotCalled EXCEPT !.script = script, !.maxRetries = maxRetries,
                      !.attempt = IF maxRetries >= 1 THEN 1 ELSE 0,
                      !.phase = IF maxRetries >= 1 THEN "fetching"
                                ELSE IF script = "current" THEN "thrown" ELSE "returned"]

\* the attempt in flight ended with `outcome`
Settled(call, outcome) ==
    IF outcome = "ok"
    THEN [call EXCEPT !.phase = "returned", !.returned = call.attempt,
                      !.outcomes = Append(call.outcomes, outcome)]
    ELSE IF LastAttempt(call.attempt, call.maxRetries)
    THEN [call EXCEPT !.phase = "thrown", !.thrown = call.attempt,
                      !.outcomes = Append(call.outcomes, outcome)]
    ELSE [call EXCEPT !.phase = "delaying",
                      !.outcomes = Append(call.outcomes, outcome),
                      !.delays = Append(call.delays, Delay(call.script, call.attempt))]

\* fetchWithRetry(url, maxRetries), called on its own
FetchWithRetry(script, maxRetries) ==
    /\ run.phase = "idle"
    /\ retry.phase = "idle"
    /\ retry' = Called(script, maxRetries)
    /\ UNCHANGED <<run, loader, roster, pokemonCache, simplePokemonCache, allPokemon, gameState,
                   answersHeap, pokemonHeap, usedQuestionTypes, askedQuestions, pending,
                   snapshot, lastOp>>

\* await fetch(url) and await response.json() settle
FetchSettled(outcome) ==
    /\ retry.phase = "fetching"
    /\ retry' = Settled(retry, outcome)
    /\ UNCHANGED <<run, loader, roster, pokemonCache, simplePokemonCache, allPokemon, gameState,
                   answersHeap, pokemonHeap, usedQuestionTypes, askedQuestions, pending,
                   snapshot, lastOp>>

\* await this.delay(...) is over: attempt++ and the next fetch
DelayElapsed ==
    /\ retry.phase = "delaying"
    /\ retry' = [retry EXCEPT !.phase = "fetching", !.attempt = retry.attempt + 1]
    /\ UNCHANGED <<run, loader, roster, pokemonCache, simplePokemonCache, allPokemon, gameState,
                   answersHeap, pokemonHeap, usedQuestionTypes, askedQuestions, pending,
                   snapshot, lastOp>>

\* pokemonId >= 10000: an alternate form
AlternateForm(pokemonId) == pokemonId >= AlternateFormsFrom

\* fetchAllPokemonData up to the await in fetchAllPokemonList: the list is
\* read from its file when it is cached and fetched in one page otherwise
FetchAllPokemonData(cached) ==
    /\ run.phase = "idle"
    /\ retry.phase = "idle"
    /\ run' = [run EXCEPT !.phase = "list"]
    /\ retry' = IF cached THEN retry ELSE Called("current", DefaultMaxRetries)
    /\ UNCHANGED <<loader, roster, pokemonCache, simplePokemonCache, allPokemon, gameState,
                   answersHeap, pokemonHeap, usedQuestionTypes, askedQuestions, pending,
                   snapshot, lastOp>>

\* fetchAllPokemonList returns `list`: the cached file parsed, or the page
\* was fetched and saved
ListResolved(list) ==
    /\ run.phase = "list"
    /\ retry.phase \in {"idle", "returned"}
    /\ run' = [run EXCEPT !.phase = "loop", !.list = list]
    /\ retry' = NotCalled
    /\ UNCHANGED <<loader, roster, pokemonCache, simplePokemonCache, allPokemon, gameState,
                   answersHeap, pokemonHeap, usedQuestionTypes, askedQuestions, pending,
                   snapshot, lastOp>>

\* fetchAllPokemonList throws, outside every try of fetchAllPokemonData: the
\* cached file does not parse, the fetch failed for good or the save failed
ListRejected ==
    /\ run.phase = "list"
    /\ retry.phase \in {"idle", "returned", "thrown"}
    /\ run' = [run EXCEPT !.phase = "thrown"]
    /\ retry' = NotCalled
    /\ UNCHANGED <<loader, roster, pokemonCache, simplePokemonCache, allPokemon, gameState,
                   answersHeap, pokemonHeap, usedQuestionTypes, askedQuestions, pending,
                   snapshot, lastOp>>

\* the entry the loop takes next
Entry == run.list[run.index + 1]

\* an iteration that ends at `continue`
SkipAlternateForm ==
    /\ run.phase = "loop"
    /\ run.index < Len(run.list)
    /\ AlternateForm(Entry)
    /\ run' = [run EXCEPT !.index = run.index + 1,
                          !.skippedAlternateForms = run.skippedAlternateForms + 1]
    /\ UNCHANGED <<retry, loader, roster, pokemonCache, simplePokemonCache, allPokemon, gameState,
                   answersHeap, pokemonHeap, usedQuestionTypes, askedQuestions, pending,
                   snapshot, lastOp>>

\* an iteration up to the await in fetchPokemon(pokemonId): with a cached
\* file nothing is fetched for the entry itself
FetchPokemon(cached) ==
    /\ run.phase = "loop"
    /\ run.index < Len(run.list)
    /\ ~AlternateForm(Entry)
    /\ run' = [run EXCEPT !.index = run.index + 1,
                          !.processedCount = run.processedCount + 1,
                          !.fetched = Append(run.fetched, Entry),
                          !.phase = IF cached THEN "associated" ELSE "fetchPokemon"]
    /\ retry' = IF cached THEN retry ELSE Called("current", DefaultMaxRetries)
    /\ UNCHANGED <<loader, roster, pokemonCache, simplePokemonCache, allPokemon, gameState,
                   answersHeap, pokemonHeap, usedQuestionTypes, askedQuestions, pending,
                   snapshot, lastOp>>

\* the error of an entry leaves fetchAllPokemonData
Uncaught(state) == [state EXCEPT !.phase = "thrown"]

\* the catch of the loop: the entry is logged and the loop goes on
Caught(state) ==
    [state EXCEPT !.phase = "loop", !.failed = Append(state.failed, state.list[state.index])]

\* fetchWithRetry returned the entry to fetchPokemon
PokemonFetched ==
    /\ run.phase = "fetchPokemon"
    /\ retry.phase = "returned"
    /\ run' = [run EXCEPT !.phase = "associated"]
    /\ retry' = NotCalled
    /\ UNCHANGED <<loader, roster, pokemonCache, simplePokemonCache, allPokemon, gameState,
                   answersHeap, pokemonHeap, usedQuestionTypes, askedQuestions, pending,
                   snapshot, lastOp>>

\* fetchWithRetry threw after its last attempt
PokemonFetchFailed ==
    /\ run.phase = "fetchPokemon"
    /\ retry.phase = "thrown"
    /\ run' = Caught(run)
    /\ retry' = NotCalled
    /\ UNCHANGED <<loader, roster, pokemonCache, simplePokemonCache, allPokemon, gameState,
                   answersHeap, pokemonHeap, usedQuestionTypes, askedQuestions, pending,
                   snapshot, lastOp>>

\* the rest of fetchPokemon (the save, the images, the associated data and
\* the delay) is through
AssociatedResolved ==
    /\ run.phase = "associated"
    /\ run' = [run EXCEPT !.phase = "loop"]
    /\ UNCHANGED <<retry, loader, roster, pokemonCache, simplePokemonCache, allPokemon, gameState,
                   answersHeap, pokemonHeap, usedQuestionTypes, askedQuestions, pending,
                   snapshot, lastOp>>

\* the rest of fetchPokemon throws
AssociatedRejected ==
    /\ run.phase = "associated"
    /\ run' = Caught(run)
    /\ UNCHANGED <<retry, loader, roster, pokemonCache, simplePokemonCache, allPokemon, gameState,
                   answersHeap, pokemonHeap, usedQuestionTypes, askedQuestions, pending,
                   snapshot, lastOp>>

\* the loop is over and fetchAllPokemonData returns
FetchAllPokemonDataReturned ==
    /\ run.phase = "loop"
    /\ run.index = Len(run.list)
    /\ run' = [run EXCEPT !.phase = "completed"]
    /\ UNCHANGED <<retry, loader, roster, pokemonCache, simplePokemonCache, allPokemon, gameState,
                   answersHeap, pokemonHeap, usedQuestionTypes, askedQuestions, pending,
                   snapshot, lastOp>>

(***************************************************************************)
(* Specifications.                                                         *)
(***************************************************************************)
\* the engine driven through startNewGame and answerQuestion, and the loader
\* answering
NextGame ==
    \/ StartNewGame
    \/ \E call \in pending : InitializeResolved(call)
    \/ \E call \in pending : InitializeRejected(call)
    \/ \E response \in Responses : AnswerQuestion(response)
    \/ \E call \in pending : CompleteGameResolved(call)

\* no game was started and no startNewGame call is on its way
NotStarted ==
    /\ gameState.currentQuestion = NoQuestion
    /\ ~gameState.gameComplete
    /\ \A call \in pending : call.caller # "startNewGame"

\* one game: startNewGame is not called again once it got through
NextOneGame ==
    \/ NotStarted /\ StartNewGame
    \/ \E call \in pending : InitializeResolved(call)
    \/ \E call \in pending : InitializeRejected(call)
    \/ \E response \in Responses : AnswerQuestion(response)
    \/ \E call \in pending : CompleteGameResolved(call)

\* a caller that stops the game at some point, reads the game state and
\* changes what it got
NextSnapshot ==
    \/ ~snapshot.taken /\ NextOneGame
    \/ GetGameState
    \/ MutateSnapshotAnswers
    \/ MutateSnapshotPokemon
    \/ MutateSnapshotField

\* the loader's caches are cleared while the engine is in use
NextCache ==
    \/ NextOneGame
    \/ ClearPokemonCache
    \/ \E call \in pending : CompleteGameNotFound(call)

Next == NextGame

Spec == Init /\ [][Next]_vars

\* the application has called initialize() when it mounted (App.tsx)
SpecInitialize == InitSmall /\ [][NextOneGame \/ Initialize]_vars

\* one game on a dataset on which the question budget can run out
SpecBudget == InitBudget /\ [][NextOneGame]_vars

\* game after game on a dataset on which used types have the better questions
SpecPreference == InitPreference /\ [][NextGame]_vars

\* game after game on that dataset
SpecBudgetGames == InitBudget /\ [][NextGame]_vars

\* one game on a dataset that only weight and height tell apart
SpecNumeric == InitNumeric /\ [][NextOneGame]_vars

SpecSnapshot == InitSmall /\ [][NextSnapshot]_vars

SpecCache == InitSmall /\ [][NextCache]_vars

\* the largest maxRetries a caller passes
MaxMaxRetries == 4

\* the ids in the pokemon list, and its greatest length
ListIds == {1, 9999, 10000, 10001}

MaxList == 3

Lists == UNION {[1..n -> ListIds] : n \in 0..MaxList}

\* nothing is loaded into the engine
InitFetcher == Constructed({<<>>})

NextRetry ==
    \/ \E script \in Scripts : \E maxRetries \in 0..MaxMaxRetries :
           FetchWithRetry(script, maxRetries)
    \/ \E outcome \in FetchOutcomes : FetchSettled(outcome)
    \/ DelayElapsed

NextFetchAll ==
    \/ \E cached \in BOOLEAN : FetchAllPokemonData(cached)
    \/ \E list \in Lists : ListResolved(list)
    \/ ListRejected
    \/ SkipAlternateForm
    \/ \E cached \in BOOLEAN : FetchPokemon(cached)
    \/ \E outcome \in FetchOutcomes : FetchSettled(outcome)
    \/ DelayElapsed
    \/ PokemonFetched
    \/ PokemonFetchFailed
    \/ AssociatedResolved
    \/ AssociatedRejected
    \/ FetchAllPokemonDataReturned

\* a caller that keeps what it once got from getGameState while the game
\* goes on and while the game after it is played
NextHeldSnapshot ==
    \/ NextOneGame
    \/ ~snapshot.taken /\ GetGameState
    \/ snapshot.taken /\ gameState.answers = snapshot.answers /\ StartNewGame

SpecHeldSnapshot == InitSmall /\ [][NextHeldSnapshot]_vars

\* callers of the two loaders
NextLoader ==
    \/ \E list \in FetchEnds : LoadSimplePokemon(list)
    \/ \E minimal \in MinimalFetchEnds, chains, types, list \in FetchEnds :
           LoadMinimalPokemon(minimal, chains, types, list)
    \/ ClearPokemonCache
    \/ ClearPokemonCacheOptimized

SpecLoader == InitSmall /\ [][NextLoader]_vars

\* one game in which answerQuestion is called before earlier calls returned
NextOverlap ==
    \/ NotStarted /\ StartNewGame
    \/ \E call \in pending : InitializeResolved(call)
    \/ \E response \in Responses : AnswerQuestionOverlapping(response)
    \/ \E call \in pending : AnswerQuestionReturned(call)
    \/ \E call \in pending : CompleteGameResolved(call)

SpecOverlap == Init /\ [][NextOverlap]_vars

\* one fetchWithRetry call of either script
SpecRetry == InitFetcher /\ [][NextRetry]_vars

\* one run of the current script; every await settles
SpecFetchAll == InitFetcher /\ [][NextFetchAll]_vars /\ WF_vars(NextFetchAll)

(***************************************************************************)
(* Properties.                                                             *)
(***************************************************************************)
\* the questions and the responses of the history, in its order
AnsweredQuestions == [i \in 1..Len(Answers) |-> Answers[i].question]

AnsweredResponses == [i \in 1..Len(Answers) |-> Answers[i].response]

\* the questions presented in the game so far: every one that was installed
\* as currentQuestion is in the history or is still pending
Presented ==
    IF gameState.currentQuestion = NoQuestion THEN AnsweredQuestions
    ELSE Append(AnsweredQuestions, gameState.currentQuestion)

\* a completeGame of the current game still waits for its lookup
GuessPending == \E call \in pending : call.op = "completeGame" /\ ~call.stale

\* a game state object that was replaced while its guess was looked up
EarlierGameReplaced == \E call \in pending : call.op = "completeGame" /\ call.stale

\* C1: the history never holds more than 20 answers, and once 20 answers are
\* accepted the game is complete and no question is pending
C1_QuestionBudget ==
    /\ Len(Answers) <= MaxQuestions
    /\ Len(Answers) >= MaxQuestions =>
           gameState.gameComplete /\ gameState.currentQuestion = NoQuestion

\* the budget ran out on a game that still had several candidates
C1_BudgetRanOut ==
    /\ Len(Answers) = MaxQuestions
    /\ Len(PossiblePokemon) > 1
    /\ gameState.gameComplete

\* C2: the questions presented in one game have pairwise different
\* (type, text) keys
C2_NoQuestionTwice ==
    \A i, j \in 1..Len(Presented) :
        i # j => QuestionKey(Presented[i]) # QuestionKey(Presented[j])

\* a question is pending whose type was asked before in this game with another
\* text: the used-type tracking was cleared in between
C2_TypeAskedAgain ==
    /\ gameState.currentQuestion # NoQuestion
    /\ \E i \in 1..Len(Answers) :
           Answers[i].question.type = gameState.currentQuestion.type

\* C3: the pending question has a candidate on its yes-side and a candidate on
\* its no-side under the filter of its strategy
C3_BothSidesNonEmpty ==
    gameState.currentQuestion # NoQuestion =>
        /\ Len(FilterPokemon(gameState.currentQuestion.type, PossiblePokemon,
                             gameState.currentQuestion, "yes")) > 0
        /\ Len(FilterPokemon(gameState.currentQuestion.type, PossiblePokemon,
                             gameState.currentQuestion, "no")) > 0

\* a question is pending although some strategy offers, for this population,
\* a question that was not asked yet and has an empty side
C3_OneSidedQuestionPassedOver ==
    /\ gameState.currentQuestion # NoQuestion
    /\ \E i \in 1..Len(StrategyTypes) :
           \E question \in {GenerateQuestion(StrategyTypes[i], PossiblePokemon)} :
               /\ question # NoQuestion
               /\ QuestionKey(question) \notin askedQuestions
               /\ \/ FilterPokemon(StrategyTypes[i], PossiblePokemon, question, "yes") = <<>>
                  \/ FilterPokemon(StrategyTypes[i], PossiblePokemon, question, "no") = <<>>

\* C4: an accepted yes or no answer leaves at most as many candidates as there
\* were, an accepted unknown answer leaves the population as it was
C4_AnswerNarrows ==
    [][(lastOp'.op = "answerQuestion" /\ lastOp'.accepted) =>
           IF lastOp'.outcome = "unknown"
           THEN PossiblePokemon' = PossiblePokemon
           ELSE Len(PossiblePokemon') <= Len(PossiblePokemon)]_vars

\* a yes answer removed candidates in a game in which an unknown answer was
\* given before
C4_YesAfterUnknown ==
    /\ lastOp = Op("answerQuestion", "yes", TRUE)
    /\ Len(PossiblePokemon) < Len(allPokemon)
    /\ \E i \in 1..Len(Answers) : Answers[i].response = "unknown"

\* C5: when the lookup of a completed game with candidates left returns, the
\* guess has the id of the first candidate
C5_GuessIsFirstCandidate ==
    [][(lastOp'.op = "completeGame" /\ lastOp'.accepted /\ Len(PossiblePokemon) > 0) =>
           gameState'.guessedPokemon.id = PossiblePokemon[1].id]_vars

\* C6: answerQuestion on a complete game or without a pending question
\* changes nothing in the engine and starts nothing
C6_StrayAnswerIgnored ==
    [][(/\ lastOp'.op = "answerQuestion"
        /\ gameState.gameComplete \/ gameState.currentQuestion = NoQuestion) =>
           UNCHANGED <<engineVars, pending>>]_vars

\* an answer was given to a complete game that has its guess
C6_AnswerAfterCompletion ==
    /\ lastOp = Op("answerQuestion", "ignored", FALSE)
    /\ gameState.gameComplete
    /\ gameState.guessedPokemon # NoPokemon
    /\ Len(Answers) > 0

\* the step after which the promise of startNewGame resolves: the step that
\* installs the first question (or completes a game without candidates), or
\* the return of the guess lookup of a game that was complete when it started
StartNewGameResolves ==
    \/ /\ lastOp'.op = "startNewGame"
       /\ lastOp'.outcome \in {"started", "resolved"}
       /\ ~gameState'.gameComplete \/ PossiblePokemon' = <<>>
    \/ /\ lastOp' = Op("completeGame", "found", TRUE)
       /\ Answers' = <<>>

\* the step ends in the state of a new game, but for the guess
EndsFreshButForGuess ==
    /\ allPokemon' = roster
    /\ PossiblePokemon' = roster
    /\ Answers' = <<>>
    /\ gameState'.currentQuestion = FreshStart(roster).question
    /\ usedQuestionTypes' =
           IF gameState'.currentQuestion = NoQuestion THEN {}
           ELSE {gameState'.currentQuestion.type}
    /\ askedQuestions' =
           IF gameState'.currentQuestion = NoQuestion THEN {}
           ELSE {QuestionKey(gameState'.currentQuestion)}

\* C7, as stated: after startNewGame resolves the state is that of a new game
\* and the guess is unset
C7_FreshAndNoGuess ==
    [][StartNewGameResolves =>
           (EndsFreshButForGuess /\ gameState'.guessedPokemon = NoPokemon)]_vars

\* C7: after startNewGame resolves the state is that of a new game; the guess
\* is unset unless the new game was complete at once with candidates left,
\* and then it is the first entity of the dataset
C7_FreshGame ==
    [][StartNewGameResolves =>
           /\ EndsFreshButForGuess
           /\ gameState'.guessedPokemon =
                  IF gameState'.gameComplete /\ roster # <<>>
                  THEN Pokemon(roster[1])
                  ELSE NoPokemon]_vars

\* startNewGame replaced a game that had completed, and a first question is
\* pending
C7_RestartedAfterCompletion ==
    /\ lastOp = Op("startNewGame", "started", TRUE)
    /\ EarlierGameReplaced
    /\ gameState.currentQuestion # NoQuestion

\* C8: whatever happened on the engine before, the game in progress shows the
\* questions, the completion flag and the guess of a game that a new engine
\* plays on the same dataset with the same responses
C8_Deterministic ==
    (gameState.currentQuestion # NoQuestion \/ gameState.gameComplete) =>
        \E fresh \in {FreshGame(roster, AnsweredResponses)} :
            /\ AnsweredQuestions = fresh.questions
            /\ gameState.currentQuestion = fresh.question
            /\ gameState.gameComplete = fresh.complete
            /\ (gameState.gameComplete /\ ~GuessPending) =>
                   gameState.guessedPokemon =
                       IF fresh.possible = <<>> THEN NoPokemon
                       ELSE Pokemon(fresh.possible[1])

\* a second game on the same engine was answered twice and ended with a guess
C8_SecondGameCompleted ==
    /\ EarlierGameReplaced
    /\ gameState.gameComplete
    /\ gameState.guessedPokemon # NoPokemon
    /\ Len(Answers) >= 2

\* C9: while the caller holds the object it got from getGameState and the
\* engine does not run, the history and the population of the engine stay as
\* they are
C9_SnapshotIsolated ==
    [][(snapshot.taken /\ snapshot'.taken /\ gameState' = gameState) =>
           (Answers' = Answers /\ PossiblePokemon' = PossiblePokemon)]_vars

\* C10: a startNewGame that has to load and a load that fails leave the
\* engine as it was
C10_FailedLoadChangesNothing ==
    [][lastOp'.outcome \in {"called", "awaits initialize", "rejected"} =>
           UNCHANGED engineVars]_vars

\* the load of startNewGame failed after the load of the application had
\* filled the population
C10_StartNewGameRejected ==
    /\ lastOp = Op("startNewGame", "rejected", TRUE)
    /\ Len(PossiblePokemon) > 0
    /\ gameState.currentQuestion = NoQuestion

\* every answer of the history is unknown
AllUnknown == \A i \in 1..Len(Answers) : Answers[i].response = "unknown"

\* the strategy `type` has, for the population, a question with a candidate on
\* each side
TwoSided(type, pokemon) ==
    \E question \in {GenerateQuestion(type, pokemon)} :
        /\ question # NoQuestion
        /\ FilterPokemon(type, pokemon, question, "yes") # <<>>
        /\ FilterPokemon(type, pokemon, question, "no") # <<>>

\* the number of strategies that have such a question
TwoSidedCount(pokemon) ==
    Cardinality({ i \in 1..Len(StrategyTypes) : TwoSided(StrategyTypes[i], pokemon) })

\* C11, as stated: a game answered with unknown only on a dataset of several
\* entities is complete with 20 answers and guesses the first entity
C11_UnknownsReachBudget ==
    (gameState.gameComplete /\ AllUnknown /\ Len(Answers) > 0 /\ Len(roster) > 1) =>
        /\ Len(Answers) = MaxQuestions
        /\ ~GuessPending => gameState.guessedPokemon = Pokemon(roster[1])

\* C11: a game answered with unknown only on a dataset of several entities is
\* asked one question by each strategy that has a two-sided question for the
\* dataset and is then complete, with fewer than 20 answers; its guess is the
\* first entity of the dataset
C11_UnknownsRunOutOfQuestions ==
    (AllUnknown /\ Len(roster) > 1) =>
        /\ gameState.currentQuestion # NoQuestion => Len(Answers) < TwoSidedCount(roster)
        /\ gameState.gameComplete =>
               /\ Len(Answers) = TwoSidedCount(roster)
               /\ Len(Answers) < MaxQuestions
               /\ PossiblePokemon = roster
               /\ ~GuessPending => gameState.guessedPokemon = Pokemon(roster[1])

\* a game of several unknown answers is complete and has its guess
C11_ConcededAfterUnknowns ==
    /\ gameState.gameComplete
    /\ AllUnknown
    /\ Len(Answers) >= 3
    /\ Len(roster) > 1
    /\ gameState.guessedPokemon = Pokemon(roster[1])

\* a question is pending on a game that goes on
AwaitingAnswer ==
    /\ gameState.currentQuestion # NoQuestion
    /\ ~gameState.gameComplete
    /\ Len(PossiblePokemon) > 1
    /\ Len(Answers) < MaxQuestions

\* the game is over
Complete == gameState.gameComplete /\ gameState.currentQuestion = NoQuestion

\* C12: once a game was started the engine is awaiting an answer or complete,
\* never both and never neither; a complete game stays complete until
\* startNewGame replaces it
C12_AwaitingOrComplete ==
    /\ []((gameState.currentQuestion # NoQuestion \/ gameState.gameComplete) =>
              (AwaitingAnswer /\ ~Complete) \/ (Complete /\ ~AwaitingAnswer))
    /\ [][(gameState.gameComplete /\ ~gameState'.gameComplete) =>
              lastOp'.op = "startNewGame"]_vars
    /\ [][(gameState.gameComplete /\ lastOp'.op = "answerQuestion") =>
              (Complete' /\ ~lastOp'.accepted)]_vars

\* an answer reached a game that had conceded with several candidates left
\* and has its guess
C12_AnswerToConcededGame ==
    /\ lastOp = Op("answerQuestion", "ignored", FALSE)
    /\ Complete
    /\ Len(PossiblePokemon) > 1
    /\ Len(Answers) < MaxQuestions
    /\ ~GuessPending

\* the strategy `type` has a candidate question for the population: one that
\* is generated, was not asked and has a candidate on each side
Candidate(type, pokemon, asked) ==
    /\ TwoSided(type, pokemon)
    /\ QuestionKey(GenerateQuestion(type, pokemon)) \notin asked

\* |yes-count - no-count| of the question of the strategy `type`
SplitOf(type, pokemon) ==
    With(GenerateQuestion(type, pokemon), LAMBDA question :
        Abs(Len(FilterPokemon(type, pokemon, question, "yes"))
            - Len(FilterPokemon(type, pokemon, question, "no"))))

\* the place of the strategy `type` in the registry
Position(type) == CHOOSE i \in 1..Len(StrategyTypes) : StrategyTypes[i] = type

\* the types of the scan that succeeds: the unused ones (all when none is
\* unused), or all of them after the clearing when the unused gave no candidate
SucceedingScan(used, pokemon, asked) ==
    LET all == { StrategyTypes[i] : i \in 1..Len(StrategyTypes) }
        first == IF all \ used = {} THEN all ELSE all \ used
    IN  IF \E t \in first : Candidate(t, pokemon, asked) THEN first ELSE all

\* `question` is the candidate of the scan with the least split, and of those
\* with that split the one of the earliest strategy
LeastSplitEarliest(question, types, pokemon, asked) ==
    /\ question.type \in types
    /\ question = GenerateQuestion(question.type, pokemon)
    /\ Candidate(question.type, pokemon, asked)
    /\ \A t \in types :
           Candidate(t, pokemon, asked) =>
               \/ SplitOf(question.type, pokemon) < SplitOf(t, pokemon)
               \/ /\ SplitOf(question.type, pokemon) = SplitOf(t, pokemon)
                  /\ Position(question.type) <= Position(t)

\* C13: the question an answerQuestion or a startNewGame installs is, among
\* the candidates of the scan that succeeded, the one with the least
\* |yes-count - no-count|, and among equals the one earliest in the registry
C13_LeastSplitFirstWins ==
    [][/\ (/\ lastOp'.op = "answerQuestion" /\ lastOp'.accepted
           /\ gameState'.currentQuestion # NoQuestion) =>
              LeastSplitEarliest(gameState'.currentQuestion,
                                 SucceedingScan(usedQuestionTypes, PossiblePokemon',
                                                askedQuestions),
                                 PossiblePokemon', askedQuestions)
       /\ (/\ lastOp'.op = "startNewGame" /\ lastOp'.outcome \in {"started", "resolved"}
           /\ gameState'.currentQuestion # NoQuestion) =>
              LeastSplitEarliest(gameState'.currentQuestion,
                                 SucceedingScan({}, PossiblePokemon', {}),
                                 PossiblePokemon', {})]_vars

\* the first question of the game was taken from a later strategy because its
\* split was less than that of the weight question, and the pending question
\* was taken before a later strategy's candidate of the same split
C13_BetterSplitThenTie ==
    /\ Len(Answers) > 0
    /\ TwoSided("weight", roster)
    /\ Answers[1].question.type # "weight"
    /\ SplitOf(Answers[1].question.type, roster) < SplitOf("weight", roster)
    /\ gameState.currentQuestion # NoQuestion
    /\ \E t \in { StrategyTypes[i] : i \in 1..Len(StrategyTypes) } \ usedQuestionTypes :
           /\ Candidate(t, PossiblePokemon, askedQuestions)
           /\ Position(t) > Position(gameState.currentQuestion.type)
           /\ SplitOf(t, PossiblePokemon) = SplitOf(gameState.currentQuestion.type, PossiblePokemon)

\* the types of the registry
AllTypes == { StrategyTypes[i] : i \in 1..Len(StrategyTypes) }

\* C14: when a type that was not used has a candidate question for the
\* population, the question answerQuestion installs is of a type that was not
\* used; a question of a used type is installed only when every type was used
\* or after the used-type set was cleared
C14_UnusedTypesFirst ==
    [][(/\ lastOp'.op = "answerQuestion" /\ lastOp'.accepted
        /\ gameState'.currentQuestion # NoQuestion) =>
           /\ (\E t \in AllTypes \ usedQuestionTypes :
                   Candidate(t, PossiblePokemon', askedQuestions)) =>
                  /\ gameState'.currentQuestion.type \notin usedQuestionTypes
                  /\ usedQuestionTypes' =
                         usedQuestionTypes \cup {gameState'.currentQuestion.type}
           /\ gameState'.currentQuestion.type \in usedQuestionTypes =>
                  \/ usedQuestionTypes = AllTypes /\ usedQuestionTypes' = AllTypes
                  \/ /\ usedQuestionTypes # AllTypes
                     /\ usedQuestionTypes' = {gameState'.currentQuestion.type}]_vars

\* the pending question was taken although a type used before, and still
\* marked as used, has a candidate question with a more even split
C14_UsedTypeWithBetterSplitPassedOver ==
    /\ gameState.currentQuestion # NoQuestion
    /\ \E t \in usedQuestionTypes \ {gameState.currentQuestion.type} :
           /\ Candidate(t, PossiblePokemon, askedQuestions)
           /\ SplitOf(t, PossiblePokemon)
                  < SplitOf(gameState.currentQuestion.type, PossiblePokemon)

\* the step ends a call of generateNextQuestion that conceded: the game is
\* complete with several candidates and fewer than 20 answers
Conceded ==
    /\ \/ lastOp'.op = "answerQuestion" /\ lastOp'.accepted
       \/ lastOp'.op = "startNewGame" /\ lastOp'.outcome \in {"started", "resolved"}
    /\ gameState'.gameComplete
    /\ Len(PossiblePokemon') > 1
    /\ Len(Answers') < MaxQuestions

\* what generateNextQuestion read when the step called it
ConcedingCall ==
    IF lastOp'.op = "answerQuestion"
    THEN GenerateNextQuestion(PossiblePokemon', Len(Answers'), usedQuestionTypes,
                              askedQuestions)
    ELSE GenerateNextQuestion(PossiblePokemon', 0, {}, {})

\* C15: when the game concedes the used-type set was cleared, no strategy of
\* the registry has a candidate question for the population, the population
\* is the one the answer left (the whole dataset at startNewGame), and the
\* call made at least two and at most 10 scans
C15_ConcedesAfterClearedFullScan ==
    [][Conceded =>
           /\ usedQuestionTypes' = {}
           /\ \A t \in AllTypes : ~Candidate(t, PossiblePokemon', askedQuestions')
           /\ PossiblePokemon' =
                  IF lastOp'.op = "answerQuestion"
                  THEN Narrowed(PossiblePokemon, gameState.currentQuestion, lastOp'.outcome)
                  ELSE allPokemon'
           /\ ConcedingCall.scans >= 2
           /\ ConcedingCall.scans <= MaxAttempts]_vars

\* an answer that removed candidates left several that no question tells
\* apart, and the game conceded
C15_ConcededAfterNarrowing ==
    /\ lastOp.op = "answerQuestion"
    /\ lastOp.outcome \in {"yes", "no"}
    /\ lastOp.accepted
    /\ gameState.gameComplete
    /\ Len(PossiblePokemon) > 1
    /\ Len(PossiblePokemon) < Len(allPokemon)
    /\ Len(Answers) < MaxQuestions

\* the dataset has exactly two entities, of different weights
TwoWeights == Len(roster) = 2 /\ roster[1].weight # roster[2].weight

\* the lighter and the heavier entity of such a dataset
Lighter == IF roster[1].weight < roster[2].weight THEN roster[1] ELSE roster[2]

Heavier == IF roster[1].weight < roster[2].weight THEN roster[2] ELSE roster[1]

\* the weight question with the weight of the lighter entity as threshold
LighterQuestion ==
    Question("weight", TenthsText("Is your Pokemon heavier than kg?", Lighter.weight),
             Lighter.weight, EmptyString, FALSE)

\* C16: on a dataset of two entities of different weights the first question
\* is the weight question with the lighter entity's weight as threshold; yes
\* leaves the heavier entity, no the lighter one, and the game is complete
\* with that entity as its guess
C16_TwoEntitiesByWeight ==
    TwoWeights =>
        /\ (gameState.currentQuestion # NoQuestion /\ Answers = <<>>) =>
               gameState.currentQuestion = LighterQuestion
        /\ Len(Answers) > 0 =>
               /\ Answers[1].question = LighterQuestion
               /\ Answers[1].response \in {"yes", "no"} =>
                      /\ Len(Answers) = 1
                      /\ PossiblePokemon =
                             IF Answers[1].response = "yes" THEN <<Heavier>> ELSE <<Lighter>>
                      /\ Complete
                      /\ ~GuessPending =>
                             gameState.guessedPokemon = Pokemon(PossiblePokemon[1])

\* the lighter entity comes second in the dataset, the answer was yes and the
\* guess is the heavier entity
C16_HeavierGuessed ==
    /\ TwoWeights
    /\ Lighter = roster[2]
    /\ Len(Answers) = 1
    /\ Answers[1].response = "yes"
    /\ gameState.guessedPokemon = Pokemon(roster[1])

\* C17: a complete game on which no lookup is under way has a guess unless its
\* population is empty
C17_GuessUnlessEmpty ==
    (gameState.gameComplete /\ Len(PossiblePokemon) > 0 /\ ~GuessPending) =>
        gameState.guessedPokemon # NoPokemon

\* C18: for the population the scan of a started game went through, every
\* strategy of the registry returns no question or a question with a
\* candidate on each side
C18_NullUnlessTwoSided ==
    (Len(PossiblePokemon) >= 2
     /\ (gameState.currentQuestion # NoQuestion \/ gameState.gameComplete)) =>
        \A t \in AllTypes :
            GenerateQuestion(t, PossiblePokemon) = NoQuestion \/ TwoSided(t, PossiblePokemon)

\* the ways the player may type a name: as it is, or with a capital first
TypedAs(name) ==
    {name} \cup { <<c>> \o Tail(name) :
                  c \in { u \in {"A", "B", "C", "D", "E", "P", "Q", "R", "S",
                                 "T", "U", "V", "W", "X"} : ToLowerCase(u) = name[1] } }

\* the places of the history whose question, answered yes or no, has a filter
\* that drops the entity from the dataset
ExcludingEntries(entity) ==
    { k \in 1..Len(Answers) :
          /\ Answers[k].response \in {"yes", "no"}
          /\ ~Includes(FilterPokemon(Answers[k].question.type, allPokemon,
                                     Answers[k].question, Answers[k].response), entity) }

IsPrefix(before, after) ==
    Len(before) <= Len(after) /\ SubSeq(after, 1, Len(before)) = before

\* C19: an accepted answerQuestion puts the pending question with the given
\* answer at the end of the history and leaves the entries before it as they
\* were; no step but a startNewGame takes an entry away or changes one
C19_HistoryAppendOnly ==
    [][/\ (lastOp'.op = "answerQuestion" /\ lastOp'.accepted) =>
              Answers' = Append(Answers, [response |-> lastOp'.outcome,
                                          question |-> gameState.currentQuestion])
       /\ lastOp'.op # "startNewGame" => IsPrefix(Answers, Answers')
       /\ (lastOp'.op = "answerQuestion" /\ ~lastOp'.accepted) => Answers' = Answers]_vars

\* an unknown answer was put after a yes or no answer and an answer of the
\* other kind came after it
C19_ThreeKindsRecorded ==
    /\ lastOp.op = "answerQuestion"
    /\ lastOp.accepted
    /\ Len(Answers) >= 3
    /\ \E i, j \in 1..Len(Answers) :
           /\ i < j
           /\ j < Len(Answers)
           /\ Answers[i].response \in {"yes", "no"}
           /\ Answers[j].response = "unknown"
           /\ Answers[Len(Answers)].response \in {"yes", "no"} \ {Answers[i].response}

\* the outcomes of the attempts of the call that were failures
FailedAttempts == {k \in 1..Len(retry.outcomes) : retry.outcomes[k] # "ok"}

\* C21: fetchWithRetry makes at most maxRetries attempts, returns the response
\* of the first attempt that succeeds and makes no attempt after it, throws the
\* error of the last attempt when all maxRetries attempts failed, having
\* waited only between attempts, and takes a non-OK status for a failure
C21_RetriesThenRethrows ==
    /\ [](/\ retry.attempt <= retry.maxRetries
          /\ Len(retry.outcomes) <= retry.attempt
          /\ (retry.phase = "returned" /\ retry.maxRetries >= 1) =>
                 /\ retry.returned = retry.attempt
                 /\ Len(retry.outcomes) = retry.attempt
                 /\ FailedAttempts = 1..(retry.attempt - 1)
          /\ (retry.phase = "thrown" /\ retry.maxRetries >= 1) =>
                 /\ retry.thrown = retry.maxRetries
                 /\ FailedAttempts = 1..retry.maxRetries
                 /\ Len(retry.delays) = retry.maxRetries - 1
          /\ \A k \in 1..Len(retry.outcomes) :
                 retry.outcomes[k] = "notOk" => retry.returned # k)
    /\ [][retry.phase \in {"returned", "thrown"} => retry' = retry]_vars

\* three attempts of a call with maxRetries 3 got a non-OK status and the
\* error of the third was thrown after two waits
C21_ThirdNotOkThrown ==
    /\ retry.phase = "thrown"
    /\ retry.maxRetries = DefaultMaxRetries
    /\ retry.outcomes = <<"notOk", "notOk", "notOk">>
    /\ retry.thrown = 3
    /\ Len(retry.delays) = 2

\* C22: the wait after the k-th failed attempt of a call is 1000 * 2^(k-1)
\* milliseconds, whatever maxRetries is
C22_ExponentialBackoff ==
    \A k \in 1..Len(retry.delays) : retry.delays[k] = 1000 * Pow(2, k - 1)

\* the entries among the first `count` of the list that are no alternate forms
MainEntries(count) == SelectSeq(SubSeq(run.list, 1, count), LAMBDA id : id < 10000)

\* the loop of fetchAllPokemonData is running
InLoop == run.phase \in {"loop", "fetchPokemon", "associated"}

\* C23: once fetchAllPokemonData has its list, fetchPokemon is called for
\* exactly the entries with an id below 10000 that the loop has reached, in
\* list order and whatever became of the entries before, the other entries
\* are counted as skipped, nothing is thrown, and the call returns having gone
\* through the whole list
C23_FailuresDoNotStopTheRun ==
    /\ []((InLoop \/ run.phase = "completed") =>
              /\ run.fetched = MainEntries(run.index)
              /\ run.skippedAlternateForms + Len(run.fetched) = run.index
              /\ run.processedCount = Len(run.fetched)
              /\ run.phase = "completed" => run.index = Len(run.list))
    /\ [][InLoop => run'.phase # "thrown"]_vars
    /\ (InLoop ~> run.phase = "completed")

\* the run returned after fetchPokemon threw for the first entry, an alternate
\* form was skipped and fetchPokemon was called for the entry after it
C23_CompletedAfterFailure ==
    /\ run.phase = "completed"
    /\ run.list = <<1, 10000, 9999>>
    /\ run.failed = <<1>>
    /\ run.fetched = <<1, 9999>>
    /\ run.skippedAlternateForms = 1

\* the predicate of a question holds of an entity: a yes keeps the entity
Holds(question, entity) ==
    FilterPokemon(question.type, <<entity>>, question, "yes") = <<entity>>

\* every yes and no of the history is the truth about `target`
Truthful(target) ==
    \A i \in 1..Len(Answers) :
        /\ Answers[i].response = "yes" => Holds(Answers[i].question, target)
        /\ Answers[i].response = "no" => ~Holds(Answers[i].question, target)

\* the entities of the dataset the history is truthful for
Targets == {allPokemon[k] : k \in {j \in 1..Len(allPokemon) : Truthful(allPokemon[j])}}

\* C24: an entity of the dataset for which every yes and no answer of the game
\* was truthful is among the candidates, and a guess made from a single
\* candidate is that entity
C24_TargetSurvives ==
    \A target \in Targets :
        /\ Includes(PossiblePokemon, target)
        /\ (gameState.gameComplete /\ Len(PossiblePokemon) = 1
            /\ gameState.guessedPokemon # NoPokemon) =>
               gameState.guessedPokemon.id = target.id

\* a game of three or more entities ended with the guess of the one entity
\* its yes, no and unknown answers were truthful for
C24_TargetGuessed ==
    /\ gameState.gameComplete
    /\ Len(allPokemon) >= 3
    /\ Len(PossiblePokemon) = 1
    /\ gameState.guessedPokemon # NoPokemon
    /\ Targets = {PossiblePokemon[1]}
    /\ \E i \in 1..Len(Answers) : Answers[i].response = "unknown"
    /\ \E i \in 1..Len(Answers) : Answers[i].response = "yes"
    /\ \E i \in 1..Len(Answers) : Answers[i].response = "no"

RECURSIVE Replay(_, _)
\* the population filtered by the yes and no entries of a history, in order
Replay(population, history) ==
    IF history = <<>> THEN population
    ELSE Replay(IF Head(history).response \in {"yes", "no"}
                THEN FilterPokemon(Head(history).question.type, population,
                                   Head(history).question, Head(history).response)
                ELSE population,
                Tail(history))

\* the entity passes every yes and no entry of the history on its own
Passes(entity) ==
    \A i \in 1..Len(Answers) :
        Answers[i].response \in {"yes", "no"} =>
            FilterPokemon(Answers[i].question.type, <<entity>>, Answers[i].question,
                          Answers[i].response) = <<entity>>

\* C25: the candidates are the dataset filtered by the yes and no entries of
\* the history, replayed in order over the whole dataset, and they are the
\* entities of the dataset, in dataset order, that pass every such entry
C25_PopulationIsReplay ==
    /\ PossiblePokemon = Replay(allPokemon, Answers)
    /\ PossiblePokemon = SelectSeq(allPokemon, Passes)

\* two answers narrowed a dataset of three entities and an unknown answer is
\* in the history
C25_NarrowedTwice ==
    /\ Len(allPokemon) >= 3
    /\ Len(PossiblePokemon) = 1
    /\ Count(Answers, LAMBDA a : a.response \in {"yes", "no"}) >= 2
    /\ \E i \in 1..Len(Answers) : Answers[i].response = "unknown"

\* C26: once a non-empty dataset is loaded the candidates are never none, and
\* an accepted yes or no answer leaves at least one candidate and fewer than
\* there were
C26_NeverEmptyAndShrinks ==
    /\ [](Len(allPokemon) > 0 => Len(PossiblePokemon) >= 1)
    /\ [][(lastOp'.op = "answerQuestion" /\ lastOp'.accepted
           /\ lastOp'.outcome \in {"yes", "no"}) =>
              /\ Len(PossiblePokemon') >= 1
              /\ Len(PossiblePokemon') < Len(PossiblePokemon)]_vars

\* a no answer took three candidates down to two, a yes answer then took the
\* two down to one
C26_ThreeTwoOne ==
    /\ lastOp = Op("answerQuestion", "yes", TRUE)
    /\ Len(allPokemon) = 3
    /\ Len(PossiblePokemon) = 1
    /\ Len(Answers) = 2
    /\ Answers[1].response = "no"

\* the types of the questions presented so far in this game, in order
PresentedTypes == [i \in 1..Len(Presented) |-> Presented[i].type]

\* C27: no question presented in a game has the type of the question
\* presented right before it
C27_NoTypeTwiceInARow ==
    \A i \in 1..(Len(PresentedTypes) - 1) : PresentedTypes[i] # PresentedTypes[i + 1]

\* the accepted answer is followed by a question of the type of the question
\* it answered
SameTypeAgain ==
    /\ lastOp'.op = "answerQuestion" /\ lastOp'.accepted
    /\ gameState'.currentQuestion # NoQuestion
    /\ gameState'.currentQuestion.type = gameState.currentQuestion.type

\* C27, amended: a question has the type of the question presented right
\* before it only when no type that is not marked as used has a candidate
\* question for the population; unless every type is marked, the used-type set
\* was then cleared and holds the type of the new question only
C27_SameTypeOnlyWithoutUnusedCandidate ==
    [][SameTypeAgain =>
           /\ gameState.currentQuestion.type \in usedQuestionTypes
           /\ ~\E t \in AllTypes \ usedQuestionTypes :
                   Candidate(t, PossiblePokemon', askedQuestions)
           /\ usedQuestionTypes # AllTypes =>
                  usedQuestionTypes' = {gameState'.currentQuestion.type}]_vars

\* the pending question and the question answered last are of the same type,
\* the only type marked as used
C27_TypeAskedTwiceInARow ==
    /\ gameState.currentQuestion # NoQuestion
    /\ Len(Answers) >= 1
    /\ Answers[Len(Answers)].question.type = gameState.currentQuestion.type
    /\ usedQuestionTypes = {gameState.currentQuestion.type}
    /\ lastOp.op = "answerQuestion"

\* the values a frequency strategy counts, in the order it meets them
CountedValues(type, pokemon) ==
    CASE type = "type" -> Flatten([i \in 1..Len(pokemon) |-> pokemon[i].types])
      [] type = "generation" -> [i \in 1..Len(pokemon) |-> pokemon[i].generation]
      [] type = "color" -> SelectSeq([i \in 1..Len(pokemon) |-> pokemon[i].color],
                                     LAMBDA c : c # UnknownColor)
      [] type = "weakness" -> Flatten([i \in 1..Len(pokemon) |-> pokemon[i].weaknesses])
      [] type = "strength" -> Flatten([i \in 1..Len(pokemon) |-> pokemon[i].strengths])

\* the value a question of a frequency strategy asks for
AskedValue(question) ==
    IF question.type = "generation" THEN question.value ELSE question.stringValue

\* the counted values whose count is closest to half of `size`
ClosestValues(values, size) ==
    {values[i] : i \in {j \in 1..Len(values) :
        \A k \in 1..Len(values) :
            Abs(2 * Occurrences(values, values[j]) - size)
                <= Abs(2 * Occurrences(values, values[k]) - size)}}

\* of those, the one met first
FirstClosest(values, size) ==
    values[CHOOSE i \in 1..Len(values) :
               /\ values[i] \in ClosestValues(values, size)
               /\ \A j \in 1..(i - 1) : values[j] \notin ClosestValues(values, size)]

\* the claim for one strategy and one population
FrequencyRule(type, pokemon) ==
    With(CountedValues(type, pokemon), LAMBDA values :
        IF values = <<>> THEN GenerateQuestion(type, pokemon) = NoQuestion
        ELSE /\ GenerateQuestion(type, pokemon) # NoQuestion
             /\ AskedValue(GenerateQuestion(type, pokemon))
                    = FirstClosest(values, Len(pokemon)))

\* C28: for the candidates of every state, each of the five frequency
\* strategies asks for the counted value whose count is closest to half the
\* number of candidates, the first met of those that tie, and returns no
\* question when it counted nothing
C28_ClosestToHalfFirstMet ==
    \A type \in {"type", "generation", "color", "weakness", "strength"} :
        FrequencyRule(type, PossiblePokemon)

\* `t` is the value at index floor(n/2), counted from 0, of the values sorted
\* ascending: at most floor(n/2) values are below it and more than floor(n/2)
\* are not above it
AtMedianIndex(t, values) ==
    /\ Includes(values, t)
    /\ Count(values, LAMBDA v : v < t) <= Len(values) \div 2
    /\ Count(values, LAMBDA v : v <= t) > Len(values) \div 2

\* the accepted answer was given to a question of the strategy `type`, asked
\* of more than 3 candidates
AnsweredOfMany(type, response) ==
    /\ lastOp' = Op("answerQuestion", response, TRUE)
    /\ gameState.currentQuestion.type = type
    /\ Len(PossiblePokemon) > 3

\* C29: of more than 3 candidates the weight and the height strategy ask with
\* the value at index floor(n/2) of the sorted values as threshold; a yes to
\* such a question keeps exactly the candidates above the threshold, a no
\* exactly those not above it
C29_MedianThreshold ==
    /\ [](Len(PossiblePokemon) > 3 =>
              /\ WeightGenerateQuestion(PossiblePokemon) # NoQuestion
              /\ AtMedianIndex(WeightGenerateQuestion(PossiblePokemon).value,
                               Weights(PossiblePokemon))
              /\ HeightGenerateQuestion(PossiblePokemon) # NoQuestion
              /\ AtMedianIndex(HeightGenerateQuestion(PossiblePokemon).value,
                               Heights(PossiblePokemon)))
    /\ [][/\ AnsweredOfMany("weight", "yes") =>
                 PossiblePokemon' = SelectSeq(PossiblePokemon,
                     LAMBDA p : p.weight > gameState.currentQuestion.value)
          /\ AnsweredOfMany("weight", "no") =>
                 PossiblePokemon' = SelectSeq(PossiblePokemon,
                     LAMBDA p : p.weight <= gameState.currentQuestion.value)
          /\ AnsweredOfMany("height", "yes") =>
                 PossiblePokemon' = SelectSeq(PossiblePokemon,
                     LAMBDA p : p.height > gameState.currentQuestion.value)
          /\ AnsweredOfMany("height", "no") =>
                 PossiblePokemon' = SelectSeq(PossiblePokemon,
                     LAMBDA p : p.height <= gameState.currentQuestion.value)]_vars

\* four candidates of weights 1, 3, 2, 2 kg were asked whether the entity is
\* heavier than 2 kg and a yes left the one of 3 kg
C29_MedianOfFourAnswered ==
    /\ lastOp = Op("answerQuestion", "yes", TRUE)
    /\ Weights(allPokemon) = <<10, 30, 20, 20>>
    /\ Len(Answers) = 1
    /\ Answers[1].question.type = "weight"
    /\ Answers[1].question.value = 20
    /\ Weights(PossiblePokemon) = <<30>>

\* the values are not all the same
Differ(values) == \E i, j \in 1..Len(values) : values[i] # values[j]

\* the least of the values
Smallest(values) == CHOOSE v \in {values[i] : i \in 1..Len(values)} :
                        \A i \in 1..Len(values) : v <= values[i]

\* the claim for the question a strategy returned for the values of 3
\* candidates or fewer
SmallSetRule(question, values) ==
    IF Len(values) < 2 THEN question = NoQuestion
    ELSE IF Differ(values)
         THEN question # NoQuestion /\ question.value = Smallest(values)
         ELSE question = NoQuestion

\* C30: of 2 or 3 candidates the weight and the height strategy return a
\* question exactly when the values differ, and its threshold is the least
\* value; of fewer than 2 candidates they return no question
C30_SmallestThreshold ==
    Len(PossiblePokemon) <= 3 =>
        /\ SmallSetRule(WeightGenerateQuestion(PossiblePokemon), Weights(PossiblePokemon))
        /\ SmallSetRule(HeightGenerateQuestion(PossiblePokemon), Heights(PossiblePokemon))

\* three candidates are left of which the two lightest weigh the same, the
\* pending weight question has that weight as threshold, and the three are
\* equally tall
C30_TwoLightestEqual ==
    /\ Len(PossiblePokemon) = 3
    /\ SortNumbers(Weights(PossiblePokemon)) = <<20, 20, 30>>
    /\ ~Differ(Heights(PossiblePokemon))
    /\ gameState.currentQuestion # NoQuestion
    /\ gameState.currentQuestion.type = "weight"
    /\ gameState.currentQuestion.value = 20

\* |evolved - not evolved| and |can evolve - cannot evolve| over a population
EvolvedSplit(pokemon) ==
    Abs(2 * Cardinality({i \in 1..Len(pokemon) : pokemon[i].isEvolved}) - Len(pokemon))

CanEvolveSplit(pokemon) ==
    Abs(2 * Cardinality({i \in 1..Len(pokemon) : pokemon[i].hasEvolution}) - Len(pokemon))

\* the accepted answer was given to an evolution question about `attribute`
AnsweredEvolution(attribute, response) ==
    /\ lastOp' = Op("answerQuestion", response, TRUE)
    /\ gameState.currentQuestion.type = "evolution"
    /\ gameState.currentQuestion.stringValue = attribute

\* C31: the evolution strategy asks whether the entity has evolved exactly
\* when the evolved split is strictly the more even one and asks whether it
\* can evolve otherwise; a yes keeps the candidates with the attribute the
\* question names, a no those without it
C31_EvolutionQuestionAndFilter ==
    /\ [](/\ EvolutionGenerateQuestion(PossiblePokemon).type = "evolution"
          /\ EvolutionGenerateQuestion(PossiblePokemon).stringValue =
                 IF EvolvedSplit(PossiblePokemon) < CanEvolveSplit(PossiblePokemon)
                 THEN IsEvolved ELSE HasEvolution
          /\ EvolutionGenerateQuestion(PossiblePokemon).text.kind =
                 IF EvolvedSplit(PossiblePokemon) < CanEvolveSplit(PossiblePokemon)
                 THEN "Has your Pokemon evolved from another Pokemon?"
                 ELSE "Can your Pokemon evolve into another Pokemon?")
    /\ [][/\ AnsweredEvolution(IsEvolved, "yes") =>
                 PossiblePokemon' = SelectSeq(PossiblePokemon, LAMBDA p : p.isEvolved)
          /\ AnsweredEvolution(IsEvolved, "no") =>
                 PossiblePokemon' = SelectSeq(PossiblePokemon, LAMBDA p : ~p.isEvolved)
          /\ AnsweredEvolution(HasEvolution, "yes") =>
                 PossiblePokemon' = SelectSeq(PossiblePokemon, LAMBDA p : p.hasEvolution)
          /\ AnsweredEvolution(HasEvolution, "no") =>
                 PossiblePokemon' = SelectSeq(PossiblePokemon, LAMBDA p : ~p.hasEvolution)]_vars

\* the history holds an answered question about having evolved and an
\* answered question about being able to evolve
C31_BothQuestionsAnswered ==
    /\ \E i \in 1..Len(Answers) :
           /\ Answers[i].question.type = "evolution"
           /\ Answers[i].question.stringValue = IsEvolved
           /\ Answers[i].response \in {"yes", "no"}
    /\ \E i \in 1..Len(Answers) :
           /\ Answers[i].question.type = "evolution"
           /\ Answers[i].question.stringValue = HasEvolution
           /\ Answers[i].response \in {"yes", "no"}

\* the candidates that have, and that do not have, the flag of a strategy
Flagged(type, pokemon) ==
    SelectSeq(pokemon, LAMBDA p : CASE type = "legendary" -> p.isLegendary
                                    [] type = "mythical" -> p.isMythical
                                    [] type = "baby" -> p.isBaby)

Unflagged(type, pokemon) ==
    SelectSeq(pokemon, LAMBDA p : CASE type = "legendary" -> ~p.isLegendary
                                    [] type = "mythical" -> ~p.isMythical
                                    [] type = "baby" -> ~p.isBaby)

\* C32: the legendary, the mythical and the baby strategy return a question
\* exactly when a candidate has the flag and a candidate does not; a yes to
\* such a question keeps exactly the candidates with the flag, a no exactly
\* those without it
C32_FlagQuestionAndFilter ==
    /\ [](\A type \in {"legendary", "mythical", "baby"} :
              /\ GenerateQuestion(type, PossiblePokemon) # NoQuestion
                     <=> /\ Flagged(type, PossiblePokemon) # <<>>
                         /\ Unflagged(type, PossiblePokemon) # <<>>
              /\ GenerateQuestion(type, PossiblePokemon) # NoQuestion =>
                     GenerateQuestion(type, PossiblePokemon).type = type)
    /\ [][\A type \in {"legendary", "mythical", "baby"} :
              (/\ lastOp'.op = "answerQuestion" /\ lastOp'.accepted
               /\ gameState.currentQuestion.type = type) =>
                  /\ lastOp'.outcome = "yes" =>
                         PossiblePokemon' = Flagged(type, PossiblePokemon)
                  /\ lastOp'.outcome = "no" =>
                         PossiblePokemon' = Unflagged(type, PossiblePokemon)
                  /\ lastOp'.outcome = "unknown" =>
                         PossiblePokemon' = PossiblePokemon]_vars

\* a flag question was answered with yes and another with no, and for the
\* candidates left one of the three strategies has no question
C32_FlagsAnswered ==
    /\ \E i \in 1..Len(Answers) :
           /\ Answers[i].question.type \in {"legendary", "mythical", "baby"}
           /\ Answers[i].response = "yes"
    /\ \E i \in 1..Len(Answers) :
           /\ Answers[i].question.type \in {"legendary", "mythical", "baby"}
           /\ Answers[i].response = "no"
    /\ Len(PossiblePokemon) >= 1
    /\ \E type \in {"legendary", "mythical", "baby"} :
           GenerateQuestion(type, PossiblePokemon) = NoQuestion

\* the questions at hand in a state: the ones the strategies generate for the
\* candidates and the ones of the history
QuestionsAtHand ==
    {GenerateQuestion(StrategyTypes[i], PossiblePokemon) : i \in 1..Len(StrategyTypes)}
        \cup {Answers[i].question : i \in 1..Len(Answers)}

\* `yes` and `no` split `pokemon`: `yes` is a part of it in its order and `no`
\* is the rest of it in its order
SplitsInOrder(yes, no, pokemon) ==
    /\ yes = SelectSeq(pokemon, LAMBDA p : Includes(yes, p))
    /\ no = SelectSeq(pokemon, LAMBDA p : ~Includes(yes, p))
    /\ Len(yes) + Len(no) = Len(pokemon)

\* the two sides of `question` over `pokemon`
SidesSplit(question, pokemon) ==
    With(<<FilterPokemon(question.type, pokemon, question, "yes"),
           FilterPokemon(question.type, pokemon, question, "no")>>,
         LAMBDA sides :
             /\ SplitsInOrder(sides[1], sides[2], pokemon)
             /\ question.type = "color" =>
                    \A i \in 1..Len(pokemon) :
                        pokemon[i].color = UnknownColor => Includes(sides[2], pokemon[i]))

\* C33: for every question a strategy generated, the yes-side and the no-side
\* of the candidates, and of the whole dataset, have no entity in common, hold
\* every entity between them and keep the order; the entities of unknown color
\* are on the no-side of a color question
C33_SidesPartition ==
    \A question \in QuestionsAtHand \ {NoQuestion} :
        /\ SidesSplit(question, PossiblePokemon)
        /\ SidesSplit(question, roster)

\* a color question is pending for candidates of which one has no known color
C33_ColorQuestionWithUnknown ==
    /\ gameState.currentQuestion # NoQuestion
    /\ gameState.currentQuestion.type = "color"
    /\ \E i \in 1..Len(PossiblePokemon) : PossiblePokemon[i].color = UnknownColor
    /\ Len(Answers) >= 1

\* no call of the engine waits at an await
Idle == pending = {}

\* the 'type:text' keys and the types of the questions presented in this game
PresentedKeys == {QuestionKey(Presented[i]) : i \in 1..Len(Presented)}

PresentedTypeSet == {Presented[i].type : i \in 1..Len(Presented)}

\* the asked-key set is the set of the keys of the presented questions
AskedArePresented ==
    /\ askedQuestions = PresentedKeys
    /\ gameState.currentQuestion # NoQuestion =>
           Cardinality(askedQuestions) = Len(Answers) + 1

\* the game ended because no question was found for several candidates
GaveUp ==
    /\ gameState.gameComplete
    /\ Len(PossiblePokemon) > 1
    /\ Len(Answers) < MaxQuestions

\* C34, as stated: with no operation in progress the asked-key set is the
\* set of the keys of the questions of the history and of the pending
\* question, and the used-type set holds only types of presented questions
\* and always the type of the question presented last
C34_TrackingMatchesPresented ==
    Idle =>
        /\ AskedArePresented
        /\ usedQuestionTypes \subseteq PresentedTypeSet
        /\ Len(Presented) > 0 => Presented[Len(Presented)].type \in usedQuestionTypes

\* C34, amended: the same, but the used-type set holds the type of the
\* question presented last unless the game ended because no question was
\* found, and then the used-type set is empty
C34_TrackingMatchesUnlessGaveUp ==
    Idle =>
        /\ AskedArePresented
        /\ usedQuestionTypes \subseteq PresentedTypeSet
        /\ (Len(Presented) > 0 /\ ~GaveUp) =>
               Presented[Len(Presented)].type \in usedQuestionTypes
        /\ (Len(Presented) > 0 /\ GaveUp) => usedQuestionTypes = {}

\* a game with answers in its history ended because no question was found,
\* its guess is made, and the used-type set is empty
C34_GaveUpWithHistory ==
    /\ Idle
    /\ GaveUp
    /\ Len(Answers) >= 2
    /\ gameState.guessedPokemon # NoPokemon
    /\ usedQuestionTypes = {}
    /\ Cardinality(askedQuestions) = Len(Answers)

\* the step is the return of a guess lookup whose game was replaced meanwhile
LateLookupReturns == lastOp'.op = "completeGame" /\ ~lastOp'.accepted

\* C35: the guess lookup of a game that startNewGame replaced changes nothing
\* in the game state when it returns; a game that is not complete has no
\* guess, a new game starts without one, and the guess a game gets is its own
\* first candidate
C35_LateLookupStaysOut ==
    /\ [](/\ ~gameState.gameComplete => gameState.guessedPokemon = NoPokemon
          /\ gameState.guessedPokemon # NoPokemon =>
                 /\ Len(PossiblePokemon) > 0
                 /\ gameState.guessedPokemon.id = PossiblePokemon[1].id)
    /\ [][/\ LateLookupReturns => UNCHANGED engineVars
          /\ (lastOp'.op = "startNewGame" /\ lastOp'.outcome \in {"started", "resolved"}) =>
                 gameState'.guessedPokemon = NoPokemon]_vars

\* the lookup of the replaced game returned while the new game has a question
\* pending and an answer in its history
C35_LateLookupDuringNewGame ==
    /\ lastOp = Op("completeGame", "found", FALSE)
    /\ ~gameState.gameComplete
    /\ gameState.currentQuestion # NoQuestion
    /\ gameState.guessedPokemon = NoPokemon
    /\ Len(Answers) >= 1

(***************************************************************************)
(* Overlapping answerQuestion calls.                                       *)
(***************************************************************************)
\* an earlier answerQuestion call has not returned: it waits for the question
\* it installed or for the lookup of the guess
Overlapped ==
    \E call \in pending :
        \/ call.op = "answerQuestion"
        \/ call.op = "completeGame" /\ ~call.stale /\ Len(Answers) >= 1

AnswerQuestionStep ==
    /\ lastOp'.op = "answerQuestion"
    /\ lastOp'.outcome \in Responses \cup {"ignored"}

FilterApplied(possible, question, response) ==
    IF response # "unknown" /\ Includes(StrategyTypes, question.type)
    THEN FilterPokemon(question.type, possible, question, response)
    ELSE possible

\* C36: an answerQuestion call issued before an earlier call returned behaves
\* as a call issued after it: an accepted call answers the question that was
\* pending, which no earlier call answered, narrows the population the earlier
\* call left, adds one entry to the history and leaves the state that the same
\* answers given one after another leave; a call that is not accepted changes
\* nothing.
C36_OverlappingCallsSerialize ==
    [][(Overlapped /\ AnswerQuestionStep) =>
          IF lastOp'.accepted
          THEN /\ Len(Answers') = Len(Answers) + 1
               /\ Answers'[Len(Answers')].question = gameState.currentQuestion
               /\ Answers'[Len(Answers')].response = lastOp'.outcome
               /\ SubSeq(Answers', 1, Len(Answers)) = Answers
               /\ \A i \in 1..Len(Answers) :
                      QuestionKey(Answers[i].question)
                          # QuestionKey(gameState.currentQuestion)
               /\ PossiblePokemon' = FilterApplied(PossiblePokemon,
                                                   gameState.currentQuestion,
                                                   lastOp'.outcome)
               /\ \E fresh \in {FreshGame(roster, AnsweredResponses')} :
                      /\ AnsweredQuestions' = fresh.questions
                      /\ PossiblePokemon' = fresh.possible
                      /\ gameState'.currentQuestion = fresh.question
                      /\ gameState'.gameComplete = fresh.complete
                      /\ usedQuestionTypes' = fresh.used
                      /\ askedQuestions' = fresh.asked
          ELSE UNCHANGED <<gameState, answersHeap, pokemonHeap, usedQuestionTypes,
                           askedQuestions, pending>>]_vars

\* a call that was accepted and completed the game while an earlier call,
\* which had installed the question it answered, had not returned
C36_AcceptedBeforeEarlierReturned ==
    /\ lastOp.op = "answerQuestion"
    /\ lastOp.accepted
    /\ gameState.gameComplete
    /\ Len(Answers) >= 2
    /\ AnswerQuestionAwaiting \subseteq pending

(***************************************************************************)
(* How often the engine calls the loader.                                  *)
(***************************************************************************)
\* the step calls loadSimplePokemon: initialize() was called, by the
\* application or by startNewGame
LoaderInvoked ==
    /\ lastOp'.outcome \in {"called", "awaits initialize"}
    /\ \E call \in pending' : call.op = "initialize"

\* a dataset load has succeeded or is on its way
LoadedOrLoading ==
    \/ simplePokemonCache
    \/ \E call \in pending : call.op = "initialize"

\* C37: the engine calls the loader for one dataset load only: no step calls
\* it while a load is on its way or after a load has succeeded, whether the
\* calls overlap and whatever the size of the dataset.
C37_LoaderInvokedOnce == [][LoaderInvoked => ~LoadedOrLoading]_vars

(***************************************************************************)
(* A snapshot that is kept while the engine goes on.                       *)
(***************************************************************************)
\* what the object returned by getGameState shows to the caller that holds it
SnapshotShows ==
    [answers |-> answersHeap[snapshot.answers],
     possiblePokemon |-> pokemonHeap[snapshot.possiblePokemon],
     currentQuestion |-> snapshot.currentQuestion,
     gameComplete |-> snapshot.gameComplete,
     guessedPokemon |-> snapshot.guessedPokemon]

\* C38: a snapshot returned by getGameState shows the same history,
\* population, question, completion flag and guess after every later step of
\* the engine, until the caller replaces it by a new one.
C38_SnapshotUnchanged ==
    [][(snapshot.taken /\ snapshot' = snapshot) => SnapshotShows' = SnapshotShows]_vars

(***************************************************************************)
(* Memoization of the loaded dataset.                                      *)
(***************************************************************************)
LoadCalls == {"loadSimplePokemon", "loadMinimalPokemon"}

\* the step is a call of the loader that was called in the step before
CalledAgain == lastOp.op \in LoadCalls /\ lastOp'.op = lastOp.op

\* the step is a call of the loader of the module whose caches were cleared
\* in the step before
CalledAfterClear ==
    /\ lastOp.op = "clearPokemonCache"
    /\ lastOp'.op = IF lastOp.outcome = "optimized" THEN "loadMinimalPokemon"
                    ELSE "loadSimplePokemon"

\* C39: a call of a loader that follows a call of it that succeeded returns
\* the dataset that call returned and fetches nothing; a call that follows
\* clearPokemonCache of its module, or a call of it that failed, fetches
\* again.
C39_Memoized ==
    [][/\ (CalledAgain /\ lastOp.outcome = "returned") =>
              /\ lastOp'.outcome = "returned"
              /\ loader'.dataset = loader.dataset
              /\ loader'.fetched = {}
       /\ (CalledAgain /\ lastOp.outcome = "thrown") => loader'.fetched # {}
       /\ CalledAfterClear => loader'.fetched # {}]_vars
====
